---- MODULE Spec2Model ----
(***************************************************************************)
(* NexusConnect: the live-connection layer of server/routes.ts (the        *)
(* connection registry `clients`, broadcastToUsers/broadcastToConversation,*)
(* the WebSocket message and close handlers) over the persistence layer of *)
(* server/storage.ts (users.status, conversations, conversation            *)
(* participants, messages, calls, call participants).                      *)
(*                                                                         *)
(* Every handler is one action: Node runs a handler's synchronous parts    *)
(* without preemption, and each storage call is a single database          *)
(* statement.  The frames a handler writes to sockets are recorded in      *)
(* `sent`, in the order client.send() was called.                          *)
(***************************************************************************)
EXTENDS Integers, Sequences, FiniteSets, TLC

\* ------------------------------------------------------------------ bounds
Users == {"A", "B", "C"}          \* user ids (users.id)
Conns == {"c1", "c2", "c3"}       \* WebSocket handles, each connects once
PairConns == {"c1", "c2"}         \* the handles of the two-connection specifications
Null == "null"                    \* JS null / undefined / SQL NULL
NoDate == 0 - 1                   \* SQL NULL in a timestamp or integer column

MaxConvs == 1                     \* conversations rows ever inserted
MaxCalls == 1                     \* calls rows ever inserted
MaxCallParticipants == 3          \* call_participants rows ever inserted
MaxRaceConvs == 2                 \* conversations created by interleaved requests
MaxMessages == 1                  \* messages rows ever inserted
MaxInFlight == 2                  \* typing messages received on the interleaved path
MaxOutbox == 1                    \* frames of one client on the wire
MaxChatMessages == 2              \* messages rows once a ChatWindow has sent one
MaxMutations == 2                 \* send mutations of one ChatWindow
MaxTicks == 2                     \* clock ticks
TickMs == 500                     \* milliseconds per clock tick

ConvIds == 1..MaxConvs
CallIds == 1..MaxCalls
MessageIds == 1..MaxMessages

\* req.body.content of the message routes
Contents == {"hi", "yo"}

\* req.body.participantIds of POST /api/conversations: two ids, a repeated id
\* (either may hold the creator's own id).
ParticipantIdLists == {<<"B", "C">>, <<"C", "C">>}

\* conversationTypeEnum
ConversationTypes == {"direct", "group"}

\* callStatusEnum
CallStatuses == {"initiated", "ringing", "active", "ended", "missed", "declined"}

VARIABLES
  clients,                  \* routes.ts `clients`: Map<userId, WebSocket>, as its set of entries
  readyState,               \* ws.readyState of every handle ("NEW" = not yet accepted)
  userId,                   \* the `let userId` closure variable of each connection
  userStatus,               \* users.status
  conversations,            \* conversations rows, by id (index)
  conversationParticipants, \* conversation_participants rows, in insertion order
  calls,                    \* calls rows, by id (index)
  callParticipants,         \* call_participants rows, in insertion order
  messages,                 \* messages rows, by id (index)
  now,                      \* the clock read by new Date(), in milliseconds
  sent,                     \* frames written by the handler that ran last
  httpResponse,             \* status code of the HTTP response sent last (0 = none)
  httpBody,                 \* id of the conversation in that response's body (0 = none)
  steps,                    \* what the HTTP route that ran last did, in statement order
  inFlight,                 \* the handlers suspended at an await, each with its locals
  outbox,                   \* client: frames sendMessage wrote, not yet received by the server
  callState,                \* client: the CallProvider's state and incomingCall, per browser
  queryData,                \* client: the cached message list of the open ChatWindow
  mutations                 \* client: the send mutations under way, each with its context

vars == <<clients, readyState, userId, userStatus, conversations,
          conversationParticipants, calls, callParticipants, messages, now, sent,
          httpResponse, httpBody, steps, inFlight, outbox, callState, queryData, mutations>>

\* --------------------------------------------------------- sequence helpers
Range(s) == {s[i] : i \in 1..Len(s)}

\* Array.from(new Set(s)): the distinct elements, in order of first insertion.
RECURSIVE SetOrder(_)
SetOrder(s) ==
  IF s = <<>> THEN <<>>
  ELSE LET front == SetOrder(SubSeq(s, 1, Len(s) - 1))
           last == s[Len(s)]
       IN IF last \in Range(front) THEN front ELSE Append(front, last)

\* Array.prototype.map(p => p.userId)
RECURSIVE MapUserId(_)
MapUserId(rows) ==
  IF rows = <<>> THEN <<>> ELSE <<Head(rows).userId>> \o MapUserId(Tail(rows))

\* ------------------------------------------------------- the clients Map
\* Map.prototype.get: the value of the entry with this key, or undefined.
MapGet(m, k) ==
  IF \E e \in m : e[1] = k THEN (CHOOSE e \in m : e[1] = k)[2] ELSE Null

\* Map.prototype.set keeping the previous entry of the key (a multimap).
MapSetKeepOld(m, k, v) == m \cup {<<k, v>>}

\* Map.prototype.set: replaces the entry of the key.
MapSet(m, k, v) == {e \in m : e[1] # k} \cup {<<k, v>>}

\* Map.prototype.delete: removes the entry of the key, whatever its value.
MapDelete(m, k) == {e \in m : e[1] # k}

\* ------------------------------------------------------------- storage.ts
\* A getParticipants that returns the first row only.
getParticipantsFirst(rows, conversationId) ==
  LET all == SelectSeq(rows, LAMBDA p : p.conversationId = conversationId)
  IN IF all = <<>> THEN <<>> ELSE <<Head(all)>>

\* getParticipants: the rows of the conversation (every row's user exists).
getParticipants(rows, conversationId) ==
  SelectSeq(rows, LAMBDA p : p.conversationId = conversationId)

\* addParticipant: one INSERT; the table has no unique key on (conversation, user).
addParticipant(rows, conversationId, uid, role) ==
  Append(rows, [conversationId |-> conversationId, userId |-> uid,
                role |-> role, isTyping |-> FALSE])

\* The loop of createConversation over participantIds (creator skipped).
RECURSIVE addOthers(_, _, _, _)
addOthers(rows, conversationId, participantIds, creatorId) ==
  IF participantIds = <<>> THEN rows
  ELSE addOthers(
         IF Head(participantIds) # creatorId
         THEN addParticipant(rows, conversationId, Head(participantIds), "member")
         ELSE rows,
         conversationId, Tail(participantIds), creatorId)

\* createConversation: the rows after inserting conversation `id`.
createConversation(rows, id, type, participantIds, creatorId) ==
  addOthers(
    addParticipant(rows, id, creatorId, IF type = "group" THEN "owner" ELSE "member"),
    id, participantIds, creatorId)

\* updateTypingStatus: UPDATE of every row of that user in that conversation.
updateTypingStatus(rows, conversationId, uid, isTyping) ==
  [i \in 1..Len(rows) |->
     IF rows[i].conversationId = conversationId /\ rows[i].userId = uid
     THEN [rows[i] EXCEPT !.isTyping = isTyping] ELSE rows[i]]

\* A lookup that only finds the conversations userId1 created.
findDirectConversationOneWay(convs, rows, userId1, userId2) ==
  LET hits == SelectSeq(rows,
                LAMBDA p : /\ p.userId = userId2
                           /\ convs[p.conversationId].type = "direct"
                           /\ convs[p.conversationId].createdById = userId1
                           /\ Len(getParticipants(rows, p.conversationId)) = 2)
  IN IF hits = <<>> THEN 0 ELSE hits[1].conversationId

\* findDirectConversation: the first common conversation of type direct with
\* exactly two participant rows, or 0 for undefined (ids start at 1).
findDirectConversation(convs, rows, userId1, userId2) ==
  LET user1Convs == SelectSeq(rows, LAMBDA p : p.userId = userId1)
      user2Convs == SelectSeq(rows, LAMBDA p : p.userId = userId2)
      commonIds == SelectSeq(user1Convs,
                     LAMBDA c : \E j \in 1..Len(user2Convs) :
                                  user2Convs[j].conversationId = c.conversationId)
      hits == SelectSeq(commonIds,
                LAMBDA c : /\ convs[c.conversationId].type = "direct"
                           /\ Len(getParticipants(rows, c.conversationId)) = 2)
  IN IF hits = <<>> THEN 0 ELSE hits[1].conversationId

\* getUserConversations: the user's conversations, most recent activity first
\* (a conversation's lastActivityAt is its creation time here), each with its
\* participants; flattened to the participant rows the handlers iterate over.
RECURSIVE conversationRowsFrom(_, _, _)
conversationRowsFrom(rows, uid, id) ==
  IF id = 0 THEN <<>>
  ELSE (IF \E i \in 1..Len(rows) : rows[i].conversationId = id /\ rows[i].userId = uid
        THEN getParticipants(rows, id) ELSE <<>>)
       \o conversationRowsFrom(rows, uid, id - 1)

getUserConversations(convs, rows, uid) == conversationRowsFrom(rows, uid, Len(convs))

\* updateConversation with data = {name}: undefined for an unknown id.
updateConversation(convs, id, name) ==
  [i \in 1..Len(convs) |-> IF i = id THEN [convs[i] EXCEPT !.name = name] ELSE convs[i]]

\* removeParticipant: DELETE of every row of that user in that conversation.
removeParticipant(rows, conversationId, uid) ==
  SelectSeq(rows, LAMBDA p : ~(p.conversationId = conversationId /\ p.userId = uid))

\* updateParticipant with data = {role}: UPDATE of every row of that user in
\* that conversation.
updateParticipant(rows, conversationId, uid, role) ==
  [i \in 1..Len(rows) |->
     IF rows[i].conversationId = conversationId /\ rows[i].userId = uid
     THEN [rows[i] EXCEPT !.role = role] ELSE rows[i]]

\* createMessage: the INSERT into messages.
createMessage(rows, conversationId, senderId, content) ==
  Append(rows, [conversationId |-> conversationId, senderId |-> senderId,
                content |-> content, editedAt |-> NoDate, deletedAt |-> NoDate])

\* createMessage: the UPDATE of the conversation's lastMessageId.
setLastMessage(convs, conversationId, messageId) ==
  [convs EXCEPT ![conversationId].lastMessageId = messageId]

\* updateMessage with data = {content}: sets the content and editedAt.
updateMessage(rows, id, content, editedAt) ==
  [rows EXCEPT ![id].content = content, ![id].editedAt = editedAt]

\* deleteMessage: a soft delete, the row stays with content null.
deleteMessage(rows, id, deletedAt) ==
  [rows EXCEPT ![id].content = Null, ![id].deletedAt = deletedAt]

\* createCall: the row of a new call (status given by the caller).
createCall(rows, conversationId, initiatorId, status) ==
  Append(rows, [conversationId |-> conversationId, initiatorId |-> initiatorId,
                status |-> status, startedAt |-> NoDate, endedAt |-> NoDate,
                duration |-> NoDate])

\* updateCall: UPDATE calls SET <the fields of data> WHERE id = id.
updateCall(rows, id, data) ==
  [i \in 1..Len(rows) |->
     IF i = id
     THEN [f \in DOMAIN rows[i] |-> IF f \in DOMAIN data THEN data[f] ELSE rows[i][f]]
     ELSE rows[i]]

\* addCallParticipant: one INSERT; no unique key on (call, user).
addCallParticipant(rows, callId, uid) ==
  Append(rows, [callId |-> callId, userId |-> uid, isMuted |-> FALSE,
                isVideoOff |-> FALSE, isScreenSharing |-> FALSE])

\* An update that writes the value to all three media flags.
updateCallParticipantAllFlags(rows, callId, uid, flag, value) ==
  [i \in 1..Len(rows) |->
     IF rows[i].callId = callId /\ rows[i].userId = uid
     THEN [rows[i] EXCEPT !.isMuted = value, !.isVideoOff = value, !.isScreenSharing = value]
     ELSE rows[i]]

\* An update whose WHERE clause names the user only.
updateCallParticipantAnyCall(rows, callId, uid, flag, value) ==
  [i \in 1..Len(rows) |->
     IF rows[i].userId = uid THEN [rows[i] EXCEPT ![flag] = value] ELSE rows[i]]

\* updateCallParticipant with data = {flag: value} (the two undefined fields
\* of data are not part of the SET): every row of that user in that call.
updateCallParticipant(rows, callId, uid, flag, value) ==
  [i \in 1..Len(rows) |->
     IF rows[i].callId = callId /\ rows[i].userId = uid
     THEN [rows[i] EXCEPT ![flag] = value]
     ELSE rows[i]]

\* ------------------------------------------------------------ broadcaster
\* contactIds built as an array: one element per participant row.
contactIdsNoSet(convs, rows, uid) ==
  SelectSeq(MapUserId(getUserConversations(convs, rows, uid)), LAMBDA id : id # uid)

\* The contactIds Set of the user-online and close handlers, as Array.from().
contactIds(convs, rows, uid) ==
  SetOrder(SelectSeq(MapUserId(getUserConversations(convs, rows, uid)),
                     LAMBDA id : id # uid))

Frame(ws, to, type, payload) == [ws |-> ws, to |-> to, type |-> type, payload |-> payload]

\* A forEach without the readyState test: one frame per registered id.
RECURSIVE sendEachAnyState(_, _, _, _, _)
sendEachAnyState(reg, ready, userIds, type, payload) ==
  IF userIds = <<>> THEN <<>>
  ELSE LET client == MapGet(reg, Head(userIds))
           rest == sendEachAnyState(reg, ready, Tail(userIds), type, payload)
       IN IF client # Null
          THEN <<Frame(client, Head(userIds), type, payload)>> \o rest
          ELSE rest

\* The forEach of broadcastToUsers: one frame per listed id whose client is OPEN.
RECURSIVE sendEach(_, _, _, _, _)
sendEach(reg, ready, userIds, type, payload) ==
  IF userIds = <<>> THEN <<>>
  ELSE LET client == MapGet(reg, Head(userIds))
           rest == sendEach(reg, ready, Tail(userIds), type, payload)
       IN IF client # Null /\ ready[client] = "OPEN"
          THEN <<Frame(client, Head(userIds), type, payload)>> \o rest
          ELSE rest

\* A forEach that throws at the first id that cannot be delivered to.
RECURSIVE sendUntilFailure(_, _, _, _, _)
sendUntilFailure(reg, ready, userIds, type, payload) ==
  IF userIds = <<>> THEN [frames |-> <<>>, threw |-> FALSE]
  ELSE LET client == MapGet(reg, Head(userIds))
       IN IF client # Null /\ ready[client] = "OPEN"
          THEN LET rest == sendUntilFailure(reg, ready, Tail(userIds), type, payload)
               IN [frames |-> <<Frame(client, Head(userIds), type, payload)>> \o rest.frames,
                   threw |-> rest.threw]
          ELSE [frames |-> <<>>, threw |-> TRUE]

\* broadcastToUsers that throws at the first id it cannot deliver to.
broadcastToUsersThrowing(reg, ready, userIds, type, payload) ==
  sendUntilFailure(reg, ready, userIds, type, payload)

\* broadcastToUsers: the frames written, and whether the call threw (no
\* statement of the loop throws: an absent or non-OPEN client is skipped).
broadcastToUsers(reg, ready, userIds, type, payload) ==
  [frames |-> sendEach(reg, ready, userIds, type, payload), threw |-> FALSE]

\* broadcastToConversation without the excludeUserId filter.
broadcastToConversationNoExclude(reg, ready, rows, conversationId, type, payload, excludeUserId) ==
  broadcastToUsers(reg, ready, MapUserId(getParticipants(rows, conversationId)), type, payload)

\* broadcastToConversation: participants' ids, minus excludeUserId (Null = none).
broadcastToConversation(reg, ready, rows, conversationId, type, payload, excludeUserId) ==
  broadcastToUsers(reg, ready,
    SelectSeq(MapUserId(getParticipants(rows, conversationId)),
              LAMBDA id : id # excludeUserId),
    type, payload)

\* ----------------------------------------------------------------- client
\* useState<CallState> of CallProvider with useState<IncomingCallInfo | null>:
\* the fields the call functions read (streams and peers left out).
\* null in a field that otherwise holds an object.
NullObject == [null |-> TRUE]

\* getQueryData of a query that has no data yet: undefined.
Undefined == [defined |-> FALSE, data |-> <<>>]

InitialCallState ==
  [isInCall |-> FALSE, currentCall |-> NullObject, incomingCall |-> NullObject,
   localStream |-> Null,
   isMuted |-> FALSE, isVideoOff |-> FALSE, isScreenSharing |-> FALSE]

\* The IncomingCallInfo {call, initiator} built from an incoming-call payload
\* (the Call as its id, the User as its id).
IncomingCallInfo(call, initiator) == [call |-> call, initiator |-> initiator]

\* obj.id in JavaScript: the property, or undefined (0) when the object has none.
idOf(obj) == IF "id" \in DOMAIN obj THEN obj.id ELSE 0

\* JSON.stringify({type, payload}) of sendMessage, as the fields the server
\* reads: a field that is absent or undefined is 0 (ids) or missing (flags).
WireFrame(type, conversationId, callId, flags) ==
  [type |-> type, conversationId |-> conversationId, callId |-> callId, flags |-> flags]

\* The case labels of the switch of ws.on("message").
HandledTypes ==
  {"user-online", "typing", "start-call", "accept-call", "decline-call", "end-call",
   "toggle-mute", "toggle-video", "toggle-screen-share",
   "ice-candidate", "webrtc-offer", "webrtc-answer"}

\* The message event of frame `frame` on connection c: the frame leaves the
\* wire if a client put it there (a frame given as input was never on it).
Received(box, c, frame) ==
  IF box[c] # <<>> /\ Head(box[c]) = frame
  THEN [box EXCEPT ![c] = Tail(box[c])]
  ELSE box

\* ------------------------------------------------------------------- Init
\* A fresh process over an empty database: users exist with the schema's
\* default status, nothing else does.
Init ==
  /\ clients = {}
  /\ readyState = [c \in Conns |-> "NEW"]
  /\ userId = [c \in Conns |-> Null]
  /\ userStatus = [u \in Users |-> "offline"]
  /\ conversations = <<>>
  /\ conversationParticipants = <<>>
  /\ calls = <<>>
  /\ callParticipants = <<>>
  /\ messages = <<>>
  /\ now = 0
  /\ sent = <<>>
  /\ httpResponse = 0
  /\ httpBody = 0
  /\ steps = <<>>
  /\ inFlight = {}
  /\ outbox = [c \in Conns |-> <<>>]
  /\ callState = [c \in Conns |-> InitialCallState]
  /\ queryData = [c \in Conns |-> Undefined]
  /\ mutations = [c \in Conns |-> <<>>]

CallsUnchanged == UNCHANGED <<calls, callParticipants, now>>
ClientUnchanged == UNCHANGED <<callState, queryData, mutations>>
DbUnchanged == UNCHANGED <<conversations, conversationParticipants, messages>> /\ CallsUnchanged

\* ---------------------------------------------------- WebSocket handlers
\* wss.on("connection"): a new handle, OPEN, with userId = null.
Connect(c) ==
  /\ readyState[c] = "NEW"
  /\ readyState' = [readyState EXCEPT ![c] = "OPEN"]
  /\ userId' = [userId EXCEPT ![c] = Null]
  /\ sent' = <<>>
  /\ httpResponse' = 0
  /\ httpBody' = 0
  /\ UNCHANGED outbox
  /\ ClientUnchanged
  /\ UNCHANGED inFlight
  /\ steps' = <<>>
  /\ UNCHANGED <<clients, userStatus>>
  /\ DbUnchanged

\* case "user-online": payload.userId = u (Null: absent or empty).
UserOnline(c, u) ==
  /\ readyState[c] = "OPEN"
  /\ userId' = [userId EXCEPT ![c] = u]
  /\ IF u # Null
     THEN /\ clients' = MapSet(clients, u, c)
          /\ userStatus' = [userStatus EXCEPT ![u] = "online"]
          /\ sent' = broadcastToUsers(clients', readyState,
                       contactIds(conversations, conversationParticipants, u),
                       "user-status-changed", <<u, "online">>).frames
     ELSE /\ UNCHANGED <<clients, userStatus>>
          /\ sent' = <<>>
  /\ httpResponse' = 0
  /\ httpBody' = 0
  /\ UNCHANGED outbox
  /\ ClientUnchanged
  /\ UNCHANGED inFlight
  /\ steps' = <<>>
  /\ UNCHANGED readyState
  /\ DbUnchanged

\* A typing case without the test of userId.
TypingUnguarded(c, conversationId, isTyping) ==
  /\ readyState[c] = "OPEN"
  /\ conversationParticipants' =
       updateTypingStatus(conversationParticipants, conversationId, userId[c], isTyping)
  /\ sent' = broadcastToConversation(clients, readyState, conversationParticipants',
               conversationId, "typing-status",
               <<conversationId, userId[c], isTyping>>, userId[c]).frames
  /\ httpResponse' = 0
  /\ httpBody' = 0
  /\ UNCHANGED outbox
  /\ ClientUnchanged
  /\ steps' = <<>>
  /\ UNCHANGED <<clients, readyState, userId, userStatus, conversations, messages, inFlight>>
  /\ CallsUnchanged

\* case "typing": payload = {conversationId, isTyping}.
Typing(c, conversationId, isTyping) ==
  /\ readyState[c] = "OPEN"
  /\ IF userId[c] # Null
     THEN /\ conversationParticipants' =
               updateTypingStatus(conversationParticipants, conversationId, userId[c], isTyping)
          /\ sent' = broadcastToConversation(clients, readyState, conversationParticipants',
                       conversationId, "typing-status",
                       <<conversationId, userId[c], isTyping>>, userId[c]).frames
     ELSE /\ UNCHANGED conversationParticipants
          /\ sent' = <<>>
  /\ httpResponse' = 0
  /\ httpBody' = 0
  /\ UNCHANGED outbox
  /\ ClientUnchanged
  /\ UNCHANGED inFlight
  /\ steps' = <<>>
  /\ UNCHANGED <<clients, readyState, userId, userStatus, conversations, messages>>
  /\ CallsUnchanged

\* A catch that closes the socket the bad frame came from.
catchMessageErrorClosing(ready, c) == [ready EXCEPT ![c] = "CLOSING"]

\* catch (error) { console.error("WebSocket message error:", error) }: the
\* socket is left as it is.
catchMessageError(ready, c) == ready

\* A frame no case handles.  "unparseable": JSON.parse throws; "not-an-object":
\* the JSON text null, whose destructuring throws; "unknown-type": an
\* envelope whose type matches no case of the switch, nothing is thrown.
MalformedKinds == {"unparseable", "not-an-object", "unknown-type"}

Malformed(c, kind) ==
  /\ readyState[c] = "OPEN"
  /\ readyState' = IF kind = "unknown-type" THEN readyState
                   ELSE catchMessageError(readyState, c)
  /\ sent' = <<>>
  /\ httpResponse' = 0
  /\ httpBody' = 0
  /\ outbox' = IF kind = "unknown-type" /\ outbox[c] # <<>>
                   /\ Head(outbox[c]).type \notin HandledTypes
                THEN [outbox EXCEPT ![c] = Tail(outbox[c])]
                ELSE outbox
  /\ ClientUnchanged
  /\ steps' = <<>>
  /\ UNCHANGED <<clients, userId, userStatus, inFlight>>
  /\ DbUnchanged

\* The relayed payload with fromUserId copied from the message.
signalPayloadClaimed(bound, claimed, data) == <<claimed, data>>

\* {fromUserId: userId, candidate | offer | answer}: fromUserId is the
\* closure's userId; a fromUserId in the message (`claimed`) is not read.
signalPayload(bound, claimed, data) == <<bound, data>>

\* case "ice-candidate" | "webrtc-offer" | "webrtc-answer": payload =
\* {targetUserId, fromUserId: claimed, candidate | offer | answer: data}.
Signal(c, type, targetUserId, claimed, data) ==
  /\ readyState[c] = "OPEN"
  /\ sent' = IF userId[c] # Null /\ targetUserId # Null /\ data # Null
             THEN broadcastToUsers(clients, readyState, <<targetUserId>>, type,
                    signalPayload(userId[c], claimed, data)).frames
             ELSE <<>>
  /\ httpResponse' = 0
  /\ httpBody' = 0
  /\ UNCHANGED outbox
  /\ ClientUnchanged
  /\ UNCHANGED inFlight
  /\ steps' = <<>>
  /\ UNCHANGED <<clients, readyState, userId, userStatus>>
  /\ DbUnchanged

\* The transport starts closing: readyState leaves OPEN before the close
\* event is emitted, and no further message event is.
Disconnect(c) ==
  /\ readyState[c] = "OPEN"
  /\ readyState' = [readyState EXCEPT ![c] = "CLOSING"]
  /\ sent' = <<>>
  /\ httpResponse' = 0
  /\ httpBody' = 0
  /\ UNCHANGED outbox
  /\ ClientUnchanged
  /\ UNCHANGED inFlight
  /\ steps' = <<>>
  /\ UNCHANGED <<clients, userId, userStatus>>
  /\ DbUnchanged

\* ws.on("close"): the handle is CLOSED when the handler runs.
Close(c) ==
  /\ readyState[c] \in {"OPEN", "CLOSING"}
  /\ readyState' = [readyState EXCEPT ![c] = "CLOSED"]
  /\ IF userId[c] # Null
     THEN /\ clients' = MapDelete(clients, userId[c])
          /\ userStatus' = [userStatus EXCEPT ![userId[c]] = "offline"]
          /\ sent' = broadcastToUsers(clients', readyState',
                       contactIds(conversations, conversationParticipants, userId[c]),
                       "user-status-changed", <<userId[c], "offline">>).frames
     ELSE /\ UNCHANGED <<clients, userStatus>>
          /\ sent' = <<>>
  /\ httpResponse' = 0
  /\ httpBody' = 0
  /\ UNCHANGED outbox
  /\ ClientUnchanged
  /\ UNCHANGED inFlight
  /\ steps' = <<>>
  /\ UNCHANGED userId
  /\ DbUnchanged

\* ------------------------------------------------------------ HTTP routes
\* app.post("/api/conversations") by authenticated user `uid`.
PostConversation(uid, type, participantIds) ==
  LET existingConv ==
        IF type = "direct" /\ Len(participantIds) = 1
        THEN findDirectConversation(conversations, conversationParticipants,
                                    uid, participantIds[1])
        ELSE 0
      id == Len(conversations) + 1
  IN IF existingConv # 0
     THEN /\ httpResponse' = 200
          /\ httpBody' = existingConv
          /\ UNCHANGED outbox
          /\ ClientUnchanged
          /\ UNCHANGED inFlight
          /\ steps' = <<"respond">>
          /\ sent' = <<>>
          /\ UNCHANGED <<clients, readyState, userId, userStatus>>
          /\ DbUnchanged
     ELSE /\ Len(conversations) < MaxConvs
          /\ conversations' = Append(conversations,
               [type |-> type, createdById |-> uid, lastMessageId |-> 0, name |-> Null])
          /\ conversationParticipants' =
               createConversation(conversationParticipants, id, type, participantIds, uid)
          /\ LET b == broadcastToUsers(clients, readyState, participantIds,
                                       "new-conversation", <<id>>)
             IN /\ sent' = b.frames
                /\ httpResponse' = IF b.threw THEN 500 ELSE 201
                /\ httpBody' = IF b.threw THEN 0 ELSE id
                /\ UNCHANGED outbox
                /\ ClientUnchanged
                /\ UNCHANGED inFlight
          /\ steps' = <<"persist", "broadcast", "respond">>
          /\ UNCHANGED <<clients, readyState, userId, userStatus, messages>>
          /\ CallsUnchanged

\* app.post("/api/conversations") for type direct and participantIds =
\* [other], up to the resolution of `await storage.findDirectConversation`:
\* an existing conversation is answered at once, otherwise the handler goes
\* on to createConversation at a later turn of the event loop.
PostConversationLookup(uid, other) ==
  LET existingConv == findDirectConversation(conversations, conversationParticipants,
                                             uid, other)
  IN /\ <<uid, other>> \notin inFlight
     /\ IF existingConv # 0
        THEN /\ httpResponse' = 200
             /\ httpBody' = existingConv
             /\ UNCHANGED outbox
             /\ ClientUnchanged
             /\ steps' = <<"respond">>
             /\ UNCHANGED inFlight
        ELSE /\ httpResponse' = 0
             /\ httpBody' = 0
             /\ UNCHANGED outbox
             /\ ClientUnchanged
             /\ steps' = <<>>
             /\ inFlight' = inFlight \cup {<<uid, other>>}
     /\ sent' = <<>>
     /\ UNCHANGED <<clients, readyState, userId, userStatus>>
     /\ DbUnchanged

\* The rest of that handler: createConversation, getConversationWithDetails,
\* the broadcast and the 201.
PostConversationCreate(uid, other) ==
  LET id == Len(conversations) + 1
  IN /\ <<uid, other>> \in inFlight
     /\ Len(conversations) < MaxRaceConvs
     /\ inFlight' = inFlight \ {<<uid, other>>}
     /\ conversations' = Append(conversations,
          [type |-> "direct", createdById |-> uid, lastMessageId |-> 0, name |-> Null])
     /\ conversationParticipants' =
          createConversation(conversationParticipants, id, "direct", <<other>>, uid)
     /\ LET b == broadcastToUsers(clients, readyState, <<other>>, "new-conversation", <<id>>)
        IN /\ sent' = b.frames
           /\ httpResponse' = IF b.threw THEN 500 ELSE 201
           /\ httpBody' = IF b.threw THEN 0 ELSE id
           /\ UNCHANGED outbox
           /\ ClientUnchanged
     /\ steps' = <<"persist", "broadcast", "respond">>
     /\ UNCHANGED <<clients, readyState, userId, userStatus, messages>>
     /\ CallsUnchanged

\* A route that awaits its broadcast before it responds.
stepsAwaitingBroadcast == <<"persist", "broadcast", "respond">>

\* The statements of the create route, in order: createMessage, res.status(201),
\* broadcastToConversation.
stepsOfPostMessage == <<"persist", "respond", "broadcast">>

\* app.post("/api/conversations/:id/messages") by authenticated user `uid`
\* (any user: the route checks no membership).  A message of a conversation
\* that does not exist violates the foreign key: 500.  The response is sent
\* before the broadcast, whose rejection is only logged.
PostMessage(uid, conversationId, content) ==
  /\ IF conversationId \in 1..Len(conversations)
     THEN /\ Len(messages) < MaxMessages
          /\ messages' = createMessage(messages, conversationId, uid, content)
          /\ conversations' = setLastMessage(conversations, conversationId, Len(messages) + 1)
          /\ httpResponse' = 201
          /\ httpBody' = 0
          /\ UNCHANGED outbox
          /\ ClientUnchanged
          /\ UNCHANGED inFlight
          /\ steps' = stepsOfPostMessage
          /\ sent' = broadcastToConversation(clients, readyState, conversationParticipants,
                       conversationId, "new-message",
                       <<conversationId, Len(messages) + 1, content>>, Null).frames
     ELSE /\ httpResponse' = 500
          /\ httpBody' = 0
          /\ UNCHANGED outbox
          /\ ClientUnchanged
          /\ UNCHANGED inFlight
          /\ steps' = <<"respond">>
          /\ sent' = <<>>
          /\ UNCHANGED <<messages, conversations>>
  /\ UNCHANGED <<clients, readyState, userId, userStatus, conversationParticipants>>
  /\ CallsUnchanged

\* An ownership test that lets every user through.
ownsMessageAlways(rows, id, uid) == TRUE

\* message.senderId !== userId, negated: the edit and delete routes' test.
ownsMessage(rows, id, uid) == rows[id].senderId = uid

\* app.patch("/api/messages/:id") by authenticated user `uid`: the broadcast
\* is awaited inside the try, before the response.
PatchMessage(uid, id, content) ==
  /\ IF id \notin 1..Len(messages)
     THEN /\ httpResponse' = 404
          /\ httpBody' = 0
          /\ UNCHANGED outbox
          /\ ClientUnchanged
          /\ UNCHANGED inFlight
          /\ steps' = <<"respond">>
          /\ sent' = <<>>
          /\ UNCHANGED messages
     ELSE IF ~ownsMessage(messages, id, uid)
     THEN /\ httpResponse' = 403
          /\ httpBody' = 0
          /\ UNCHANGED outbox
          /\ ClientUnchanged
          /\ UNCHANGED inFlight
          /\ steps' = <<"respond">>
          /\ sent' = <<>>
          /\ UNCHANGED messages
     ELSE /\ messages' = updateMessage(messages, id, content, now)
          /\ LET b == broadcastToConversation(clients, readyState,
                         conversationParticipants, messages[id].conversationId,
                         "message-updated",
                         <<messages[id].conversationId, id, content>>, Null)
             IN /\ sent' = b.frames
                /\ httpResponse' = IF b.threw THEN 500 ELSE 200
                /\ httpBody' = 0
                /\ UNCHANGED outbox
                /\ ClientUnchanged
                /\ UNCHANGED inFlight
          /\ steps' = <<"persist", "broadcast", "respond">>
  /\ UNCHANGED <<clients, readyState, userId, userStatus, conversations,
                 conversationParticipants>>
  /\ CallsUnchanged

\* app.delete("/api/messages/:id") by authenticated user `uid`.
DeleteMessage(uid, id) ==
  /\ IF id \notin 1..Len(messages)
     THEN /\ httpResponse' = 404
          /\ httpBody' = 0
          /\ UNCHANGED outbox
          /\ ClientUnchanged
          /\ UNCHANGED inFlight
          /\ steps' = <<"respond">>
          /\ sent' = <<>>
          /\ UNCHANGED messages
     ELSE IF ~ownsMessage(messages, id, uid)
     THEN /\ httpResponse' = 403
          /\ httpBody' = 0
          /\ UNCHANGED outbox
          /\ ClientUnchanged
          /\ UNCHANGED inFlight
          /\ steps' = <<"respond">>
          /\ sent' = <<>>
          /\ UNCHANGED messages
     ELSE /\ messages' = deleteMessage(messages, id, now)
          /\ LET b == broadcastToConversation(clients, readyState,
                         conversationParticipants, messages[id].conversationId,
                         "message-deleted",
                         <<messages[id].conversationId, id>>, Null)
             IN /\ sent' = b.frames
                /\ httpResponse' = IF b.threw THEN 500 ELSE 204
                /\ httpBody' = 0
                /\ UNCHANGED outbox
                /\ ClientUnchanged
                /\ UNCHANGED inFlight
          /\ steps' = <<"persist", "broadcast", "respond">>
  /\ UNCHANGED <<clients, readyState, userId, userStatus, conversations,
                 conversationParticipants>>
  /\ CallsUnchanged

\* app.patch("/api/conversations/:id") with req.body = {name}: any
\* authenticated user.
PatchConversation(id, name) ==
  /\ IF id \notin 1..Len(conversations)
     THEN /\ httpResponse' = 404
          /\ httpBody' = 0
          /\ UNCHANGED outbox
          /\ ClientUnchanged
          /\ UNCHANGED inFlight
          /\ steps' = <<"persist", "respond">>
          /\ sent' = <<>>
          /\ UNCHANGED conversations
     ELSE /\ conversations' = updateConversation(conversations, id, name)
          /\ LET b == broadcastToConversation(clients, readyState,
                         conversationParticipants, id, "conversation-updated",
                         <<id, name>>, Null)
             IN /\ sent' = b.frames
                /\ httpResponse' = IF b.threw THEN 500 ELSE 200
                /\ httpBody' = 0
                /\ UNCHANGED outbox
                /\ ClientUnchanged
                /\ UNCHANGED inFlight
          /\ steps' = <<"persist", "broadcast", "respond">>
  /\ UNCHANGED <<clients, readyState, userId, userStatus, conversationParticipants,
                 messages>>
  /\ CallsUnchanged

\* app.delete("/api/conversations/:conversationId/participants/:userId"): any
\* authenticated user; the broadcast reads the participants after the removal.
DeleteParticipant(conversationId, uid) ==
  /\ conversationParticipants' = removeParticipant(conversationParticipants, conversationId, uid)
  /\ LET b == broadcastToConversation(clients, readyState, conversationParticipants',
                 conversationId, "participant-left", <<conversationId, uid>>, Null)
     IN /\ sent' = b.frames
        /\ httpResponse' = IF b.threw THEN 500 ELSE 204
        /\ httpBody' = 0
        /\ UNCHANGED outbox
        /\ ClientUnchanged
        /\ UNCHANGED inFlight
  /\ steps' = <<"persist", "broadcast", "respond">>
  /\ UNCHANGED <<clients, readyState, userId, userStatus, conversations, messages>>
  /\ CallsUnchanged

\* app.patch("/api/conversations/:conversationId/participants/:userId") with
\* req.body = {role}: any authenticated user, any role of the enum; the body
\* goes to the UPDATE as it is.
PatchParticipant(conversationId, uid, role) ==
  /\ conversationParticipants' =
       updateParticipant(conversationParticipants, conversationId, uid, role)
  /\ sent' = <<>>
  /\ httpResponse' = 204
  /\ httpBody' = 0
  /\ UNCHANGED outbox
  /\ ClientUnchanged
  /\ UNCHANGED inFlight
  /\ steps' = <<"persist", "respond">>
  /\ UNCHANGED <<clients, readyState, userId, userStatus, conversations, messages>>
  /\ CallsUnchanged

\* The outcomes of getParticipants(undefined) in POST /api/calls without a
\* conversationId: the driver binds NULL (no row, 201) or rejects the
\* parameter (500).
AbsentConversationResponses == {201, 500}

\* app.post("/api/calls") by authenticated user `uid`; conversationId = 0 is a
\* body without one (the column is nullable), an unknown id violates the
\* foreign key.
PostCall(uid, conversationId) ==
  /\ IF conversationId \in 0..Len(conversations)
     THEN /\ Len(calls) < MaxCalls
          /\ Len(callParticipants) < MaxCallParticipants
          /\ calls' = createCall(calls, conversationId, uid, "initiated")
          /\ callParticipants' = addCallParticipant(callParticipants, Len(calls) + 1, uid)
          /\ IF conversationId = 0
             THEN /\ sent' = <<>>
                  /\ httpResponse' \in AbsentConversationResponses
                  /\ httpBody' = 0
                  /\ UNCHANGED outbox
                  /\ ClientUnchanged
                  /\ UNCHANGED inFlight
             ELSE LET b == broadcastToConversation(clients, readyState,
                             conversationParticipants, conversationId, "incoming-call",
                             <<Len(calls) + 1, uid>>, uid)
                  IN /\ sent' = b.frames
                     /\ httpResponse' = IF b.threw THEN 500 ELSE 201
                     /\ httpBody' = 0
                     /\ UNCHANGED outbox
                     /\ ClientUnchanged
                     /\ UNCHANGED inFlight
          /\ steps' = <<"persist", "broadcast", "respond">>
     ELSE /\ httpResponse' = 500
          /\ httpBody' = 0
          /\ UNCHANGED outbox
          /\ ClientUnchanged
          /\ UNCHANGED inFlight
          /\ steps' = <<"respond">>
          /\ sent' = <<>>
          /\ UNCHANGED <<calls, callParticipants>>
  /\ UNCHANGED <<clients, readyState, userId, userStatus, conversations,
                 conversationParticipants, messages, now>>

\* ------------------------------------------------- storage calls that throw
\* A catch that answers 200 instead.
ServerErrorAnswersOk(done) ==
  /\ httpResponse' = 200
  /\ httpBody' = 0
  /\ UNCHANGED outbox
  /\ ClientUnchanged
  /\ UNCHANGED inFlight
  /\ steps' = done \o <<"respond">>
  /\ sent' = <<>>
  /\ UNCHANGED <<clients, readyState, userId, userStatus>>
  /\ CallsUnchanged

\* The catch of a route, after the steps `done`: 500, and whatever was
\* persisted before the throw stays.
ServerError(done) ==
  /\ httpResponse' = 500
  /\ httpBody' = 0
  /\ UNCHANGED outbox
  /\ ClientUnchanged
  /\ UNCHANGED inFlight
  /\ steps' = done \o <<"respond">>
  /\ sent' = <<>>
  /\ UNCHANGED <<clients, readyState, userId, userStatus>>
  /\ CallsUnchanged

\* The create route when the storage call `at` throws.  createMessage is two
\* statements without a transaction; getParticipants is called by the
\* broadcast, after the response, and its rejection is caught and logged.
PostMessageFails(uid, conversationId, content, at) ==
  /\ conversationId \in 1..Len(conversations)
  /\ IF at = "insertMessage"
     THEN UNCHANGED <<messages, conversations>>
     ELSE /\ Len(messages) < MaxMessages
          /\ messages' = createMessage(messages, conversationId, uid, content)
          /\ IF at = "updateConversation"
             THEN UNCHANGED conversations
             ELSE conversations' =
                    setLastMessage(conversations, conversationId, Len(messages) + 1)
  /\ IF at = "getParticipants"
     THEN /\ httpResponse' = 201
          /\ httpBody' = 0
          /\ UNCHANGED outbox
          /\ ClientUnchanged
          /\ UNCHANGED inFlight
          /\ steps' = stepsOfPostMessage
          /\ sent' = <<>>
          /\ UNCHANGED <<clients, readyState, userId, userStatus>>
          /\ CallsUnchanged
     ELSE ServerError(IF at = "insertMessage" THEN <<>> ELSE <<"persist">>)
  /\ UNCHANGED conversationParticipants

\* The edit route when the storage call `at` throws: the catch answers 500,
\* also when the edit is already persisted and only the broadcast's
\* participant lookup fails.
PatchMessageFails(uid, id, content, at) ==
  /\ at # "getMessage" => (id \in 1..Len(messages) /\ ownsMessage(messages, id, uid))
  /\ IF at = "getParticipants"
     THEN messages' = updateMessage(messages, id, content, now)
     ELSE UNCHANGED messages
  /\ ServerError(IF at = "getParticipants" THEN <<"persist", "broadcast">> ELSE <<>>)
  /\ UNCHANGED <<conversations, conversationParticipants>>

\* The delete route when the storage call `at` throws.
DeleteMessageFails(uid, id, at) ==
  /\ at # "getMessage" => (id \in 1..Len(messages) /\ ownsMessage(messages, id, uid))
  /\ IF at = "getParticipants"
     THEN messages' = deleteMessage(messages, id, now)
     ELSE UNCHANGED messages
  /\ ServerError(IF at = "getParticipants" THEN <<"persist", "broadcast">> ELSE <<>>)
  /\ UNCHANGED <<conversations, conversationParticipants>>

\* The conversation update route when the storage call `at` throws.
PatchConversationFails(id, name, at) ==
  /\ at # "updateConversation" => id \in 1..Len(conversations)
  /\ IF at = "getParticipants"
     THEN conversations' = updateConversation(conversations, id, name)
     ELSE UNCHANGED conversations
  /\ ServerError(IF at = "getParticipants" THEN <<"persist", "broadcast">> ELSE <<>>)
  /\ UNCHANGED <<conversationParticipants, messages>>

\* The participant removal route when the storage call `at` throws.
DeleteParticipantFails(conversationId, uid, at) ==
  /\ IF at = "getParticipants"
     THEN conversationParticipants' =
            removeParticipant(conversationParticipants, conversationId, uid)
     ELSE UNCHANGED conversationParticipants
  /\ ServerError(IF at = "getParticipants" THEN <<"persist", "broadcast">> ELSE <<>>)
  /\ UNCHANGED <<conversations, messages>>

\* POST /api/calls when the storage call `at` throws: the call row stays
\* when only addCallParticipant, getUser or getParticipants fails.
PostCallFails(uid, conversationId, at) ==
  /\ conversationId \in 1..Len(conversations)
  /\ IF at = "createCall"
     THEN UNCHANGED <<calls, callParticipants>>
     ELSE /\ Len(calls) < MaxCalls
          /\ calls' = createCall(calls, conversationId, uid, "initiated")
          /\ IF at = "addCallParticipant"
             THEN UNCHANGED callParticipants
             ELSE /\ Len(callParticipants) < MaxCallParticipants
                  /\ callParticipants' =
                       addCallParticipant(callParticipants, Len(calls) + 1, uid)
  /\ httpResponse' = 500
  /\ httpBody' = 0
  /\ UNCHANGED outbox
  /\ ClientUnchanged
  /\ UNCHANGED inFlight
  /\ steps' = (IF at = "createCall" THEN <<>>
               ELSE IF at = "getParticipants" THEN <<"persist", "broadcast">>
               ELSE <<"persist">>) \o <<"respond">>
  /\ sent' = <<>>
  /\ UNCHANGED <<clients, readyState, userId, userStatus, conversations,
                 conversationParticipants, messages, now>>

\* What the runtime does with the rejected promise of an async listener that
\* nothing awaits: Node 15 and later raise it as an uncaught exception and the
\* process exits, earlier builds (or --unhandled-rejections=warn) log it.
UnhandledRejectionOutcomes == {"warn", "exit"}

\* ws.on("close") when the storage call `at` rejects: the handler has no
\* try/catch, clients.delete has run, the broadcast is not reached.  On exit
\* the registry and every socket of the process are gone; the database stays.
CloseFails(c, at, outcome) ==
  /\ readyState[c] \in {"OPEN", "CLOSING"}
  /\ userId[c] # Null
  /\ IF at = "updateUserStatus"
     THEN UNCHANGED userStatus
     ELSE userStatus' = [userStatus EXCEPT ![userId[c]] = "offline"]
  /\ IF outcome = "exit"
     THEN /\ clients' = {}
          /\ readyState' = [d \in Conns |-> IF readyState[d] = "NEW" THEN "NEW" ELSE "CLOSED"]
          /\ userId' = [d \in Conns |-> Null]
     ELSE /\ clients' = MapDelete(clients, userId[c])
          /\ readyState' = [readyState EXCEPT ![c] = "CLOSED"]
          /\ UNCHANGED userId
  /\ sent' = <<>>
  /\ httpResponse' = 0
  /\ httpBody' = 0
  /\ UNCHANGED outbox
  /\ ClientUnchanged
  /\ UNCHANGED inFlight
  /\ steps' = <<>>
  /\ DbUnchanged

\* case "user-online" when the storage call `at` rejects: the try/catch of
\* the message handler logs it; clients.set has run, the broadcast has not.
UserOnlineFails(c, u, at) ==
  /\ readyState[c] = "OPEN"
  /\ u # Null
  /\ userId' = [userId EXCEPT ![c] = u]
  /\ clients' = MapSet(clients, u, c)
  /\ IF at = "updateUserStatus"
     THEN UNCHANGED userStatus
     ELSE userStatus' = [userStatus EXCEPT ![u] = "online"]
  /\ sent' = <<>>
  /\ httpResponse' = 0
  /\ httpBody' = 0
  /\ UNCHANGED outbox
  /\ ClientUnchanged
  /\ UNCHANGED inFlight
  /\ steps' = <<>>
  /\ UNCHANGED readyState
  /\ DbUnchanged

\* ------------------------------------------------------ call lifecycle (WS)
\* new Date() advances between handlers.
Tick ==
  /\ now < MaxTicks * TickMs
  /\ now' = now + TickMs
  /\ sent' = <<>>
  /\ httpResponse' = 0
  /\ httpBody' = 0
  /\ UNCHANGED outbox
  /\ ClientUnchanged
  /\ UNCHANGED inFlight
  /\ steps' = <<>>
  /\ UNCHANGED <<clients, readyState, userId, userStatus, conversations,
                 conversationParticipants, calls, callParticipants, messages>>

LiveUnchanged == UNCHANGED <<clients, readyState, userId, userStatus, conversations,
                             conversationParticipants, messages, now>>

\* case "start-call": payload.conversationId = conversationId.  A call of a
\* conversation that does not exist violates the foreign key: the insert throws
\* and the handler's catch logs it.
StartCall(c, conversationId) ==
  /\ readyState[c] = "OPEN"
  /\ IF userId[c] # Null /\ conversationId \in 1..Len(conversations)
     THEN /\ Len(calls) < MaxCalls
          /\ Len(callParticipants) < MaxCallParticipants
          /\ calls' = createCall(calls, conversationId, userId[c], "initiated")
          /\ callParticipants' = addCallParticipant(callParticipants, Len(calls) + 1, userId[c])
          /\ sent' = broadcastToConversation(clients, readyState, conversationParticipants,
                       conversationId, "incoming-call",
                       <<Len(calls) + 1, userId[c]>>, userId[c]).frames
     ELSE /\ UNCHANGED <<calls, callParticipants>>
          /\ sent' = <<>>
  /\ httpResponse' = 0
  /\ httpBody' = 0
  /\ outbox' = Received(outbox, c, WireFrame("start-call", conversationId, 0, <<>>))
  /\ ClientUnchanged
  /\ UNCHANGED inFlight
  /\ steps' = <<>>
  /\ LiveUnchanged

\* case "accept-call": payload.callId = callId.
AcceptCall(c, callId) ==
  /\ readyState[c] = "OPEN"
  /\ IF userId[c] # Null /\ callId \in 1..Len(calls)
     THEN /\ Len(callParticipants) < MaxCallParticipants
          /\ callParticipants' = addCallParticipant(callParticipants, callId, userId[c])
          /\ calls' = updateCall(calls, callId, [status |-> "active", startedAt |-> now])
          /\ sent' = IF calls[callId].conversationId # 0
                     THEN broadcastToConversation(clients, readyState,
                            conversationParticipants, calls[callId].conversationId,
                            "call-accepted", <<callId, userId[c]>>, Null).frames
                     ELSE <<>>
     ELSE /\ UNCHANGED <<calls, callParticipants>>
          /\ sent' = <<>>
  /\ httpResponse' = 0
  /\ httpBody' = 0
  /\ outbox' = Received(outbox, c, WireFrame("accept-call", 0, callId, <<>>))
  /\ ClientUnchanged
  /\ UNCHANGED inFlight
  /\ steps' = <<>>
  /\ LiveUnchanged

\* case "decline-call": payload.callId = callId.
DeclineCall(c, callId) ==
  /\ readyState[c] = "OPEN"
  /\ IF userId[c] # Null /\ callId \in 1..Len(calls)
     THEN /\ calls' = updateCall(calls, callId, [status |-> "declined"])
          /\ sent' = IF calls[callId].conversationId # 0
                     THEN broadcastToConversation(clients, readyState,
                            conversationParticipants, calls[callId].conversationId,
                            "call-declined", <<callId, userId[c]>>, Null).frames
                     ELSE <<>>
     ELSE /\ UNCHANGED calls
          /\ sent' = <<>>
  /\ httpResponse' = 0
  /\ httpBody' = 0
  /\ outbox' = Received(outbox, c, WireFrame("decline-call", 0, callId, <<>>))
  /\ ClientUnchanged
  /\ UNCHANGED inFlight
  /\ steps' = <<>>
  /\ UNCHANGED callParticipants
  /\ LiveUnchanged

\* Math.round in place of Math.floor.
callDurationRounded(startedAt, endedAt) ==
  IF startedAt # NoDate THEN (endedAt - startedAt + 500) \div 1000 ELSE 0

\* The duration of end-call: whole seconds since startedAt, 0 without one.
callDuration(startedAt, endedAt) ==
  IF startedAt # NoDate THEN (endedAt - startedAt) \div 1000 ELSE 0

\* case "end-call": payload.callId = callId.
EndCall(c, callId) ==
  /\ readyState[c] = "OPEN"
  /\ IF userId[c] # Null /\ callId \in 1..Len(calls)
     THEN LET endedAt == now
              duration == callDuration(calls[callId].startedAt, endedAt)
          IN /\ calls' = updateCall(calls, callId,
                           [status |-> "ended", endedAt |-> endedAt, duration |-> duration])
             /\ sent' = IF calls[callId].conversationId # 0
                        THEN broadcastToConversation(clients, readyState,
                               conversationParticipants, calls[callId].conversationId,
                               "call-ended", <<callId, userId[c], duration>>, Null).frames
                        ELSE <<>>
     ELSE /\ UNCHANGED calls
          /\ sent' = <<>>
  /\ httpResponse' = 0
  /\ httpBody' = 0
  /\ outbox' = Received(outbox, c, WireFrame("end-call", 0, callId, <<>>))
  /\ ClientUnchanged
  /\ UNCHANGED inFlight
  /\ steps' = <<>>
  /\ UNCHANGED callParticipants
  /\ LiveUnchanged

\* The flag a toggle type reads from its payload and writes.
ToggleTypes == {"toggle-mute", "toggle-video", "toggle-screen-share"}
MediaFlags == {"isMuted", "isVideoOff", "isScreenSharing"}
flagOf(type) ==
  IF type = "toggle-mute" THEN "isMuted"
  ELSE IF type = "toggle-video" THEN "isVideoOff"
  ELSE "isScreenSharing"

\* case "toggle-mute" | "toggle-video" | "toggle-screen-share": payload =
\* {callId, ...flags}, `flags` a function from the flag names present to
\* their values; callId = 0 is a payload without one.  With the type's own
\* flag absent all three fields of data are undefined, the UPDATE has no
\* value to set and throws, and the handler's catch logs it.
Toggle(c, type, callId, flags) ==
  /\ readyState[c] = "OPEN"
  /\ IF userId[c] # Null /\ callId # 0 /\ flagOf(type) \in DOMAIN flags
     THEN /\ callParticipants' = updateCallParticipant(callParticipants, callId, userId[c],
                                    flagOf(type), flags[flagOf(type)])
          /\ sent' = IF callId \in 1..Len(calls) /\ calls[callId].conversationId # 0
                     THEN broadcastToConversation(clients, readyState,
                            conversationParticipants, calls[callId].conversationId,
                            "participant-media-changed", <<callId, userId[c], flags>>,
                            userId[c]).frames
                     ELSE <<>>
     ELSE /\ UNCHANGED callParticipants
          /\ sent' = <<>>
  /\ httpResponse' = 0
  /\ httpBody' = 0
  /\ outbox' = Received(outbox, c, WireFrame(type, 0, callId, flags))
  /\ ClientUnchanged
  /\ UNCHANGED inFlight
  /\ steps' = <<>>
  /\ UNCHANGED calls
  /\ LiveUnchanged

\* app.patch("/api/calls/:id") with req.body = {status}: any authenticated user.
PatchCall(callId, status) ==
  /\ calls' = updateCall(calls, callId, [status |-> status])
  /\ httpResponse' = 200
  /\ httpBody' = 0
  /\ UNCHANGED outbox
  /\ ClientUnchanged
  /\ UNCHANGED inFlight
  /\ steps' = <<"persist", "respond">>
  /\ sent' = <<>>
  /\ UNCHANGED callParticipants
  /\ LiveUnchanged

\* ------------------------------------- the typing handler, await by await
\* ws.on("message", async ...) is not awaited by the socket: the handler of
\* the next frame starts while the earlier one is suspended at an await, and
\* the storage promises of different handlers resolve in either order.
\* `inFlight` holds one record per typing handler: its locals, the number
\* of its frame in arrival order (seq), its position (pc) and the user ids
\* its broadcast wrote to.
TypingHandlers == {h \in inFlight : h.pc # "done"}

\* case "typing" up to its first await: the guard passed and
\* storage.updateTypingStatus(conversationId, userId, isTyping) was called.
TypingReceive(c, conversationId, isTyping) ==
  /\ readyState[c] = "OPEN"
  /\ userId[c] # Null
  /\ conversationId # 0
  /\ Cardinality(inFlight) < MaxInFlight
  /\ inFlight' = inFlight \cup
       {[c |-> c, conversationId |-> conversationId, userId |-> userId[c],
         isTyping |-> isTyping, seq |-> Cardinality(inFlight) + 1,
         pc |-> "update", delivered |-> {}]}
  /\ sent' = <<>>
  /\ httpResponse' = 0
  /\ httpBody' = 0
  /\ UNCHANGED outbox
  /\ ClientUnchanged
  /\ steps' = <<>>
  /\ UNCHANGED <<clients, readyState, userId, userStatus>>
  /\ DbUnchanged

\* The UPDATE of updateTypingStatus runs and its promise resolves; the
\* handler goes on to broadcastToConversation, suspended at getParticipants.
TypingUpdate(h) ==
  /\ h \in inFlight
  /\ h.pc = "update"
  /\ conversationParticipants' =
       updateTypingStatus(conversationParticipants, h.conversationId, h.userId, h.isTyping)
  /\ inFlight' = (inFlight \ {h}) \cup {[h EXCEPT !.pc = "broadcast"]}
  /\ sent' = <<>>
  /\ httpResponse' = 0
  /\ httpBody' = 0
  /\ UNCHANGED outbox
  /\ ClientUnchanged
  /\ steps' = <<>>
  /\ UNCHANGED <<clients, readyState, userId, userStatus, conversations, messages>>
  /\ CallsUnchanged

\* getParticipants resolves and broadcastToUsers writes the typing-status
\* frames; `userId` is the closure variable, read when the payload is built.
TypingBroadcast(h) ==
  /\ h \in inFlight
  /\ h.pc = "broadcast"
  /\ sent' = broadcastToConversation(clients, readyState, conversationParticipants,
               h.conversationId, "typing-status",
               <<h.conversationId, userId[h.c], h.isTyping>>, userId[h.c]).frames
  /\ inFlight' = (inFlight \ {h}) \cup
       {[h EXCEPT !.pc = "done", !.delivered = {sent'[i].to : i \in 1..Len(sent')}]}
  /\ httpResponse' = 0
  /\ httpBody' = 0
  /\ UNCHANGED outbox
  /\ ClientUnchanged
  /\ steps' = <<>>
  /\ UNCHANGED <<clients, readyState, userId, userStatus>>
  /\ DbUnchanged

\* ------------------------------------------- client: CallProvider (calls)
\* Every client action runs in the browser of connection c: it changes that
\* browser's state and the wire, nothing on the server.
ServerUnchanged ==
  /\ UNCHANGED <<clients, readyState, userId, userStatus, inFlight>>
  /\ DbUnchanged
  /\ UNCHANGED <<sent, httpResponse, httpBody, steps>>

\* sendMessage(type, payload) on the socket of c.
sendMessage(box, c, frame) == [box EXCEPT ![c] = Append(box[c], frame)]

\* The socket of c is connected and identified, and has room on the wire.
CanSend(c) ==
  /\ readyState[c] = "OPEN"
  /\ userId[c] # Null
  /\ Len(outbox[c]) < MaxOutbox

\* startCall(conversationId, "video", participants), getUserMedia granted:
\* currentCall is not set (...prev), the call's id is not known to the caller.
ClientStartCall(c, conversationId) ==
  /\ CanSend(c)
  /\ Len(calls) < MaxCalls
  /\ \A d \in Conns : \A i \in 1..Len(outbox[d]) : outbox[d][i].type # "start-call"
  /\ callState' = [callState EXCEPT ![c] =
       [@ EXCEPT !.isInCall = TRUE, !.localStream = "audio+video",
                 !.isMuted = FALSE, !.isVideoOff = FALSE]]
  /\ outbox' = sendMessage(outbox, c, WireFrame("start-call", conversationId, 0, <<>>))
  /\ UNCHANGED <<queryData, mutations>>
  /\ ServerUnchanged

\* The onMessage subscription of CallProvider: an incoming-call frame
\* written to this socket sets incomingCall.
OnIncomingCall(c) ==
  /\ \E i \in 1..Len(sent) :
       /\ sent[i].ws = c
       /\ sent[i].type = "incoming-call"
       /\ callState' = [callState EXCEPT ![c].incomingCall =
            IncomingCallInfo(sent[i].payload[1], sent[i].payload[2])]
  /\ UNCHANGED <<outbox, queryData, mutations>>
  /\ ServerUnchanged

\* acceptCall(callId) with an incomingCall (without one it returns at once),
\* getUserMedia granted: incomingCall.type is undefined, so the stream is
\* audio only; currentCall becomes the IncomingCallInfo object itself.
ClientAcceptCall(c, callId) ==
  /\ CanSend(c)
  /\ callState[c].incomingCall # NullObject
  /\ callState' = [callState EXCEPT ![c] =
       [@ EXCEPT !.isInCall = TRUE, !.currentCall = callState[c].incomingCall,
                 !.localStream = "audio", !.incomingCall = NullObject,
                 !.isMuted = FALSE, !.isVideoOff = FALSE]]
  /\ outbox' = sendMessage(outbox, c, WireFrame("accept-call", 0, callId, <<>>))
  /\ UNCHANGED <<queryData, mutations>>
  /\ ServerUnchanged

\* endCall(): end-call {callId: state.currentCall.id} is sent only with a
\* currentCall; the state is reset in every case.
ClientEndCall(c) ==
  /\ CanSend(c)
  /\ callState[c].isInCall
  /\ outbox' = IF callState[c].currentCall # NullObject
                THEN sendMessage(outbox, c,
                       WireFrame("end-call", 0, idOf(callState[c].currentCall), <<>>))
                ELSE outbox
  /\ callState' = [callState EXCEPT ![c] =
       [InitialCallState EXCEPT !.incomingCall = callState[c].incomingCall]]
  /\ UNCHANGED <<queryData, mutations>>
  /\ ServerUnchanged

\* toggleMute / toggleVideo (with a stream that has the track) and
\* toggleScreenShare (display capture granted): the flag is flipped and sent
\* as the whole payload.
ClientToggle(c, type) ==
  LET flag == flagOf(type)
      value == ~callState[c][flag]
  IN /\ CanSend(c)
     /\ type = "toggle-mute" => callState[c].localStream # Null
     /\ type = "toggle-video" => callState[c].localStream = "audio+video"
     /\ callState' = [callState EXCEPT ![c] =
          [@ EXCEPT ![flag] = value,
                    !.localStream = IF type = "toggle-screen-share" /\ @ # Null
                                    THEN "audio+video" ELSE @]]
     /\ outbox' = sendMessage(outbox, c, WireFrame(type, 0, 0, [f \in {flag} |-> value]))
     /\ UNCHANGED <<queryData, mutations>>
     /\ ServerUnchanged

\* joinCall(callId).
ClientJoinCall(c, callId) ==
  /\ CanSend(c)
  /\ outbox' = sendMessage(outbox, c, WireFrame("join-call", 0, callId, <<>>))
  /\ UNCHANGED <<callState, queryData, mutations>>
  /\ ServerUnchanged

\* The server's message event for the frame at the head of c's wire: the
\* switch of ws.on("message") on the types CallProvider sends.
Deliver(c) ==
  /\ outbox[c] # <<>>
  /\ LET frame == Head(outbox[c])
     IN \/ frame.type = "start-call" /\ StartCall(c, frame.conversationId)
        \/ frame.type = "accept-call" /\ AcceptCall(c, frame.callId)
        \/ frame.type = "end-call" /\ EndCall(c, frame.callId)
        \/ frame.type \in ToggleTypes /\ Toggle(c, frame.type, frame.callId, frame.flags)
        \/ frame.type \notin HandledTypes /\ Malformed(c, "unknown-type")

\* ------------------------------------------- client: ChatWindow (messages)
\* The cached data of the query ["/api/conversations", id, "messages"].
Cached(list) == [defined |-> TRUE, data |-> list]

\* A message id: the id of a messages row, or `temp-${Date.now()}`.
RowId(n) == [temp |-> FALSE, n |-> n]
TempId(t) == [temp |-> TRUE, n |-> t]

\* A message of the list, with the path that put it there.
Entry(id, via) == [id |-> id, via |-> via]

\* previousMessages.filter((m) => !m.id.startsWith("temp-"))
filterNotTemp(list) == SelectSeq(list, LAMBDA m : ~m.id.temp)

\* oldData.some((m) => m.id === id)
some(list, id) == \E i \in 1..Len(list) : list[i].id = id

\* getConversationMessages: the rows of the conversation, oldest first (the
\* first n rows of the table).
RECURSIVE getConversationMessages(_, _, _)
getConversationMessages(rows, conversationId, n) ==
  IF n = 0 THEN <<>>
  ELSE getConversationMessages(rows, conversationId, n - 1)
         \o (IF rows[n].conversationId = conversationId
             THEN <<Entry(RowId(n), "query")>> ELSE <<>>)

\* The messages query of the ChatWindow of connection c's browser: its first
\* fetch of GET /api/conversations/:id/messages fills the cache.
QueryLoad(c, conversationId) ==
  /\ userId[c] # Null
  /\ ~queryData[c].defined
  /\ queryData' = [queryData EXCEPT ![c] =
       Cached(getConversationMessages(messages, conversationId, Len(messages)))]
  /\ UNCHANGED <<outbox, callState, mutations>>
  /\ ServerUnchanged

\* onMutate of sendMessageMutation, after its await: the snapshot of the
\* cache is kept as the context and the optimistic message is appended to a
\* defined cache.  The input is rendered once the messages query has loaded,
\* and MessageInput clears its content on submit, so a further send follows
\* new input, at a later time.
OnMutate(c, content) ==
  /\ userId[c] # Null
  /\ queryData[c].defined
  /\ Len(mutations[c]) < MaxMutations
  /\ \A j \in 1..Len(mutations[c]) : mutations[c][j].at < now
  /\ mutations' = [mutations EXCEPT ![c] =
       Append(@, [previousMessages |-> queryData[c], content |-> content,
                  at |-> now, pc |-> "pending", data |-> 0])]
  /\ queryData' =
       IF queryData[c].defined
       THEN [queryData EXCEPT ![c] =
              Cached(Append(@.data, Entry(TempId(now), "optimistic")))]
       ELSE queryData
  /\ UNCHANGED <<outbox, callState>>
  /\ ServerUnchanged

\* mutationFn of mutation i: the POST of the message to the conversation of
\* the ChatWindow, answered 201 with the created message; the route
\* broadcasts new-message after it has responded.
MutationFn(c, i, conversationId) ==
  /\ i \in 1..Len(mutations[c])
  /\ mutations[c][i].pc = "pending"
  /\ conversationId \in 1..Len(conversations)
  /\ Len(messages) < MaxChatMessages
  /\ messages' = createMessage(messages, conversationId, userId[c], mutations[c][i].content)
  /\ conversations' = setLastMessage(conversations, conversationId, Len(messages) + 1)
  /\ httpResponse' = 201
  /\ httpBody' = 0
  /\ steps' = stepsOfPostMessage
  /\ sent' = broadcastToConversation(clients, readyState, conversationParticipants,
               conversationId, "new-message",
               <<conversationId, Len(messages) + 1, mutations[c][i].content>>, Null).frames
  /\ mutations' = [mutations EXCEPT ![c][i] =
       [@ EXCEPT !.pc = "resolved", !.data = Len(messages) + 1]]
  /\ UNCHANGED <<outbox, callState, queryData, inFlight>>
  /\ UNCHANGED <<clients, readyState, userId, userStatus, conversationParticipants>>
  /\ CallsUnchanged

\* onSuccess of mutation i: the cache becomes the snapshot of onMutate
\* without its optimistic messages, followed by the created message.
OnSuccess(c, i) ==
  /\ i \in 1..Len(mutations[c])
  /\ mutations[c][i].pc = "resolved"
  /\ LET context == mutations[c][i]
         previousMessages == IF context.previousMessages.defined
                             THEN context.previousMessages.data ELSE <<>>
         filtered == filterNotTemp(previousMessages)
     IN queryData' = [queryData EXCEPT ![c] =
          Cached(Append(filtered, Entry(RowId(context.data), "response")))]
  /\ mutations' = [mutations EXCEPT ![c][i].pc = "done"]
  /\ UNCHANGED <<outbox, callState>>
  /\ ServerUnchanged

\* The onMessage subscription of ChatWindow, for a new-message frame of its
\* conversation written to this socket: appended to a defined cache unless a
\* message of that id is in it.
OnNewMessage(c, conversationId) ==
  /\ \E i \in 1..Len(sent) :
       /\ sent[i].ws = c
       /\ sent[i].type = "new-message"
       /\ sent[i].payload[1] = conversationId
       /\ LET id == RowId(sent[i].payload[2])
              oldData == queryData[c]
          IN queryData' =
               IF ~oldData.defined THEN queryData
               ELSE IF some(oldData.data, id) THEN queryData
               ELSE [queryData EXCEPT ![c] =
                      Cached(Append(oldData.data, Entry(id, "new-message")))]
  /\ UNCHANGED <<outbox, callState, mutations>>
  /\ ServerUnchanged

\* ----------------------------------------------------------- specifications
\* Registry and presence: two handles that may identify as any user, any
\* number of times, and whose transport may be closing before the close
\* handler runs.
Next ==
  \/ \E c \in PairConns : Connect(c)
  \/ \E c \in PairConns, u \in Users \cup {Null} : UserOnline(c, u)
  \/ \E c \in PairConns : Disconnect(c)
  \/ \E c \in PairConns : Close(c)
  \/ \E u \in Users, ids \in ParticipantIdLists : PostConversation(u, "group", ids)

Spec == Init /\ [][Next]_vars

\* user-online on a connection that has not identified yet.
IdentifyOnce(c, u) == userId[c] = Null /\ UserOnline(c, u)

\* Fan-out: the three users, each on a handle of its own, whose transport
\* may be closing before the close handler runs.
OwnUser3 == {<<"c1", "A">>, <<"c2", "B">>, <<"c3", "C">>}

NextFanout ==
  \/ \E c \in Conns : Connect(c)
  \/ \E p \in OwnUser3 : IdentifyOnce(p[1], p[2])
  \/ \E c \in Conns : Disconnect(c)
  \/ \E c \in Conns : Close(c)
  \/ \E c \in Conns, id \in ConvIds, t \in BOOLEAN : Typing(c, id, t)
  \/ \E u \in Users, ids \in ParticipantIdLists : PostConversation(u, "group", ids)

SpecFanout == Init /\ [][NextFanout]_vars

\* Call lifecycle: two handles, each identifying once, as any user; the
\* conversations are those a user creates with B, direct or group.
NextCall ==
  \/ \E c \in PairConns : Connect(c)
  \/ \E c \in PairConns, u \in Users : IdentifyOnce(c, u)
  \/ \E u \in Users, t \in ConversationTypes : PostConversation(u, t, <<"B">>)
  \/ \E c \in PairConns, id \in ConvIds : StartCall(c, id)
  \/ \E c \in PairConns, id \in CallIds : AcceptCall(c, id)
  \/ \E c \in PairConns, id \in CallIds : DeclineCall(c, id)
  \/ \E c \in PairConns, id \in CallIds : EndCall(c, id)
  \/ \E id \in CallIds, s \in CallStatuses : PatchCall(id, s)
  \/ Tick

SpecCall == Init /\ [][NextCall]_vars

\* Call duration: handle c1 is user A's and c2 is user B's, in the
\* conversation A creates with B; A starts the calls, either accepts and ends.
OwnUser == {<<"c1", "A">>, <<"c2", "B">>}

NextCallEnd ==
  \/ \E c \in PairConns : Connect(c)
  \/ \E p \in OwnUser : IdentifyOnce(p[1], p[2])
  \/ PostConversation("A", "group", <<"B">>)
  \/ \E id \in ConvIds : StartCall("c1", id)
  \/ \E c \in PairConns, id \in CallIds : AcceptCall(c, id)
  \/ \E c \in PairConns, id \in CallIds : EndCall(c, id)
  \/ Tick

SpecCallEnd == Init /\ [][NextCallEnd]_vars

\* Messages: the three users, each on a handle of its own, in the group A
\* creates with B and C; A and B post, and try to edit each other's and
\* their own messages; transports may be closing.
NextMessage ==
  \/ \E c \in Conns : Connect(c)
  \/ \E p \in OwnUser3 : IdentifyOnce(p[1], p[2])
  \/ \E c \in Conns : Disconnect(c)
  \/ PostConversation("A", "group", <<"B", "C">>)
  \/ \E u \in {"A", "B"}, id \in ConvIds, t \in Contents : PostMessage(u, id, t)
  \/ \E u \in {"A", "B"}, id \in MessageIds, t \in Contents : PatchMessage(u, id, t)

SpecMessage == Init /\ [][NextMessage]_vars

\* Message routes: A on c1 and B on c2, in the group A creates with B; A
\* posts "hi", both edit to "yo" and delete; any storage call of A's requests
\* may throw.
PostMessageFaults == {"insertMessage", "updateConversation", "getMessageWithSender", "getParticipants"}

PatchMessageFaults == {"getMessage", "updateMessage", "getParticipants"}

DeleteMessageFaults == {"getMessage", "deleteMessage", "getParticipants"}

NextEdit ==
  \/ \E c \in PairConns : Connect(c)
  \/ \E p \in OwnUser : IdentifyOnce(p[1], p[2])
  \/ \E c \in PairConns : Disconnect(c)
  \/ PostConversation("A", "group", <<"B">>)
  \/ \E id \in ConvIds : PostMessage("A", id, "hi")
  \/ \E u \in {"A", "B"}, id \in MessageIds : PatchMessage(u, id, "yo")
  \/ \E u \in {"A", "B"}, id \in MessageIds : DeleteMessage(u, id)
  \/ \E id \in ConvIds, at \in PostMessageFaults : PostMessageFails("A", id, "hi", at)
  \/ \E id \in MessageIds, at \in PatchMessageFaults : PatchMessageFails("A", id, "yo", at)
  \/ \E id \in MessageIds, at \in DeleteMessageFaults : DeleteMessageFails("A", id, at)

SpecEdit == Init /\ [][NextEdit]_vars

\* Every HTTP mutation route, each with its storage calls failing.
Names == {"team"}
PatchConversationFaults == {"updateConversation", "getParticipants"}
DeleteParticipantFaults == {"removeParticipant", "getParticipants"}
PostCallFaults == {"createCall", "addCallParticipant", "getUser", "getParticipants"}

NextRoutes ==
  \/ Connect("c2")
  \/ IdentifyOnce("c2", "B")
  \/ PostConversation("A", "group", <<"B">>)
  \/ PostMessage("A", 1, "hi")
  \/ \E id \in MessageIds : PatchMessage("A", id, "yo")
  \/ \E id \in MessageIds : DeleteMessage("A", id)
  \/ \E n \in Names : PatchConversation(1, n)
  \/ DeleteParticipant(1, "B")
  \/ PostCall("A", 1)
  \/ \E at \in PostMessageFaults : PostMessageFails("A", 1, "hi", at)
  \/ \E id \in MessageIds, at \in PatchMessageFaults : PatchMessageFails("A", id, "yo", at)
  \/ \E id \in MessageIds, at \in DeleteMessageFaults : DeleteMessageFails("A", id, at)
  \/ \E n \in Names, at \in PatchConversationFaults :
       PatchConversationFails(1, n, at)
  \/ \E at \in DeleteParticipantFaults : DeleteParticipantFails(1, "B", at)
  \/ \E at \in PostCallFaults : PostCallFails("A", 1, at)

SpecRoutes == Init /\ [][NextRoutes]_vars

\* The live-connection path: identification and close, with the presence
\* storage calls of both handlers failing.
PresenceFaults == {"updateUserStatus", "getUserConversations"}

NextLive ==
  \/ \E c \in Conns : Connect(c)
  \/ \E p \in OwnUser3 : IdentifyOnce(p[1], p[2])
  \/ \E c \in Conns : Disconnect(c)
  \/ \E c \in Conns : Close(c)
  \/ PostConversation("A", "group", <<"B">>)
  \/ \E p \in OwnUser3, at \in PresenceFaults : UserOnlineFails(p[1], p[2], at)
  \/ \E c \in Conns, at \in PresenceFaults, o \in UnhandledRejectionOutcomes :
       CloseFails(c, at, o)

SpecLive == Init /\ [][NextLive]_vars

\* The signaling relay between three users, beside a call between A and B;
\* a target's transport may be closing.
SignalTypes == {"ice-candidate", "webrtc-offer", "webrtc-answer"}
SignalData == {"sdp", Null}

NextSignal ==
  \/ \E c \in Conns : Connect(c)
  \/ \E p \in OwnUser3 : IdentifyOnce(p[1], p[2])
  \/ \E c \in Conns : Disconnect(c)
  \/ PostConversation("A", "group", <<"B">>)
  \/ StartCall("c1", 1)
  \/ \E c \in Conns, t \in SignalTypes, u \in Users \cup {Null}, f \in Users, d \in SignalData :
       Signal(c, t, u, f, d)

SpecSignal == Init /\ [][NextSignal]_vars

\* Starting a call over HTTP and over the socket; conversation id 0 is a
\* request without one.
NextCallStart ==
  \/ \E c \in PairConns : Connect(c)
  \/ \E p \in OwnUser : IdentifyOnce(p[1], p[2])
  \/ PostConversation("A", "group", <<"B">>)
  \/ \E c \in PairConns, id \in ConvIds \cup {0} : StartCall(c, id)
  \/ \E u \in {"A", "B"}, id \in ConvIds \cup {0} : PostCall(u, id)

SpecCallStart == Init /\ [][NextCallStart]_vars

\* Media toggles in a call between A and B; a payload carries all three
\* flags (the two that are not the type's own are extra fields) or only
\* isVideoOff (for the other two types their own flag is then absent).
MediaPayloads ==
  {[f \in MediaFlags |-> TRUE], [f \in MediaFlags |-> FALSE], [f \in {"isVideoOff"} |-> TRUE]}

NextMedia ==
  \/ \E c \in PairConns : Connect(c)
  \/ \E p \in OwnUser : IdentifyOnce(p[1], p[2])
  \/ PostConversation("A", "group", <<"B">>)
  \/ StartCall("c1", 1)
  \/ AcceptCall("c2", 1)
  \/ \E c \in PairConns, t \in ToggleTypes, id \in {0, 1}, p \in MediaPayloads :
       Toggle(c, t, id, p)

SpecMedia == Init /\ [][NextMedia]_vars

\* Direct conversations: each request names one other user; participants
\* can be removed.
DirectRequests == {<<"A", "B">>, <<"B", "A">>, <<"A", "C">>}

NextDirect ==
  \/ \E c \in PairConns : Connect(c)
  \/ \E p \in OwnUser : IdentifyOnce(p[1], p[2])
  \/ \E r \in DirectRequests : PostConversation(r[1], "direct", <<r[2]>>)
  \/ \E id \in ConvIds, u \in {"A", "B"} : DeleteParticipant(id, u)

SpecDirect == Init /\ [][NextDirect]_vars

\* Requests for the direct conversation of A and B, from either side, whose
\* handlers interleave at the await of the lookup.
RaceRequests == {<<"A", "B">>, <<"B", "A">>}

NextRace ==
  \/ \E c \in PairConns : Connect(c)
  \/ \E p \in OwnUser : IdentifyOnce(p[1], p[2])
  \/ \E r \in RaceRequests : PostConversationLookup(r[1], r[2])
  \/ \E r \in RaceRequests : PostConversationCreate(r[1], r[2])

SpecRace == Init /\ [][NextRace]_vars

\* A group of A (creator), B and C, and the participant routes.
ParticipantRoles == {"owner", "admin", "member"}

NextOwner ==
  \/ \E c \in PairConns : Connect(c)
  \/ \E p \in OwnUser : IdentifyOnce(p[1], p[2])
  \/ PostConversation("A", "group", <<"B", "C">>)
  \/ \E id \in ConvIds, u \in {"A", "B"} : DeleteParticipant(id, u)
  \/ \E id \in ConvIds, u \in {"A", "B"}, r \in ParticipantRoles : PatchParticipant(id, u, r)

SpecOwner == Init /\ [][NextOwner]_vars

\* Every guarded message type, on connections that have identified (c1 as
\* A, c2 as B) and on connections that have not.

NextGuarded ==
  \/ \E c \in PairConns : Connect(c)
  \/ \E p \in OwnUser : IdentifyOnce(p[1], p[2])
  \/ PostConversation("A", "group", <<"B">>)
  \/ \E c \in PairConns : Typing(c, 1, TRUE)
  \/ \E c \in PairConns : StartCall(c, 1)
  \/ \E c \in PairConns : AcceptCall(c, 1)
  \/ \E c \in PairConns : DeclineCall(c, 1)
  \/ \E c \in PairConns : EndCall(c, 1)
  \/ \E c \in PairConns : Toggle(c, "toggle-mute", 1, [f \in MediaFlags |-> TRUE])
  \/ \E c \in PairConns, u \in {"A", "B"} : Signal(c, "webrtc-offer", u, "A", "sdp")
  \/ \E c \in PairConns, k \in MalformedKinds : Malformed(c, k)

SpecGuarded == Init /\ [][NextGuarded]_vars

\* Call messages that name call 1, before and after it exists, or
\* UnknownCallId, which names no call.
UnknownCallId == MaxCalls + 1

NextUnknownCall ==
  \/ \E c \in PairConns : Connect(c)
  \/ \E p \in OwnUser : IdentifyOnce(p[1], p[2])
  \/ PostConversation("A", "group", <<"B">>)
  \/ StartCall("c1", 1)
  \/ AcceptCall("c2", 1)
  \/ DeclineCall("c2", 1)
  \/ EndCall("c1", 1)
  \/ \E c \in PairConns : Toggle(c, "toggle-mute", 1, [f \in MediaFlags |-> TRUE])
  \/ \E c \in PairConns : AcceptCall(c, UnknownCallId)
  \/ \E c \in PairConns : DeclineCall(c, UnknownCallId)
  \/ \E c \in PairConns : EndCall(c, UnknownCallId)
  \/ \E c \in PairConns, t \in ToggleTypes :
       Toggle(c, t, UnknownCallId, [f \in MediaFlags |-> TRUE])

SpecUnknownCall == Init /\ [][NextUnknownCall]_vars

\* A, B and C, each on a handle of its own; A and B are the participants
\* of conversation 1 and of its call, C is a participant of neither.
NextOutsider ==
  \/ \E c \in Conns : Connect(c)
  \/ \E p \in OwnUser3 : IdentifyOnce(p[1], p[2])
  \/ PostConversation("A", "group", <<"B">>)
  \/ StartCall("c1", 1)
  \/ \E c \in Conns : Typing(c, 1, TRUE)
  \/ \E c \in Conns : AcceptCall(c, 1)
  \/ \E c \in Conns : DeclineCall(c, 1)
  \/ \E c \in Conns : EndCall(c, 1)

SpecOutsider == Init /\ [][NextOutsider]_vars

\* Typing messages of A (on c1) for the conversation of A and B, B connected
\* on c2, their handlers interleaving at the awaits.
NextTyping ==
  \/ \E c \in PairConns : Connect(c)
  \/ \E p \in OwnUser : IdentifyOnce(p[1], p[2])
  \/ PostConversation("A", "group", <<"B">>)
  \/ \E v \in BOOLEAN : TypingReceive("c1", 1, v)
  \/ \E h \in inFlight : TypingUpdate(h)
  \/ \E h \in inFlight : TypingBroadcast(h)

SpecTyping == Init /\ [][NextTyping]_vars

\* Two browsers, A's on c1 and B's on c2, in the conversation of A and B: A
\* starts a call, B accepts it, both use the call controls and hang up.
NextCallClient ==
  \/ \E c \in PairConns : Connect(c)
  \/ \E p \in OwnUser : IdentifyOnce(p[1], p[2])
  \/ PostConversation("A", "group", <<"B">>)
  \/ ClientStartCall("c1", 1)
  \/ OnIncomingCall("c2")
  \/ callState["c2"].incomingCall # NullObject
       /\ ClientAcceptCall("c2", callState["c2"].incomingCall.call)
  \/ \E c \in PairConns : ClientEndCall(c)
  \/ \E c \in PairConns, t \in ToggleTypes : ClientToggle(c, t)
  \/ \E c \in PairConns : ClientJoinCall(c, 1)
  \/ \E c \in PairConns : Deliver(c)

SpecCallClient == Init /\ [][NextCallClient]_vars

\* The ChatWindow of A (on c1) open on the conversation of A and B: A sends
\* messages from it while B posts messages to the conversation.
NextChat ==
  \/ \E c \in PairConns : Connect(c)
  \/ \E p \in OwnUser : IdentifyOnce(p[1], p[2])
  \/ PostConversation("A", "group", <<"B">>)
  \/ Tick
  \/ QueryLoad("c1", 1)
  \/ \E content \in Contents : OnMutate("c1", content)
  \/ \E i \in 1..MaxMutations : MutationFn("c1", i, 1)
  \/ \E i \in 1..MaxMutations : OnSuccess("c1", i)
  \/ \E content \in Contents : PostMessage("B", 1, content)
  \/ OnNewMessage("c1", 1)

SpecChat == Init /\ [][NextChat]_vars

\* ------------------------------------------------------------------ claims
\* A user is connected when the registry holds an OPEN handle for the id.
Connected(reg, ready, u) == MapGet(reg, u) # Null /\ ready[MapGet(reg, u)] = "OPEN"

\* The user ids with a participant row in the conversation.
Members(rows, id) == {rows[i].userId : i \in {j \in 1..Len(rows) : rows[j].conversationId = id}}

\* Two users share a conversation.
Shares(rows, u, v) == \E i, j \in 1..Len(rows) :
  rows[i].conversationId = rows[j].conversationId /\ rows[i].userId = u /\ rows[j].userId = v

\* The number of frames of one type and payload addressed to a user.
FramesTo(frames, u, type, payload) ==
  Cardinality({i \in 1..Len(frames) :
     frames[i].to = u /\ frames[i].type = type /\ frames[i].payload = payload})

\* C1: when a connection closes, the registry entry of its user id is removed
\* only if it still holds that connection: an entry holding another handle
\* (a newer connection of the same user) survives the close.
C1_CompareAndRemove ==
  [][\A c \in Conns : Close(c) =>
       \A u \in Users :
         (MapGet(clients, u) # Null /\ MapGet(clients, u) # c)
           => MapGet(clients', u) = MapGet(clients, u)]_vars

\* C2: the registry holds at most one entry per user id; a connection that
\* identifies as a user becomes the one a lookup returns; and every frame
\* addressed to a user is written to the handle the registry maps the id to
\* (so a connection replaced by a later one receives nothing addressed to it).
RegistryFunctional == \A e1, e2 \in clients : e1[1] = e2[1] => e1 = e2

FramesToRegistered == \A i \in 1..Len(sent) : sent[i].ws = MapGet(clients, sent[i].to)

C2_OneConnectionPerUser ==
  /\ [](RegistryFunctional /\ FramesToRegistered)
  /\ [][\A c \in Conns, u \in Users : UserOnline(c, u) => MapGet(clients', u) = c]_vars

\* Two open connections identified as the same user, and a frame addressed to
\* that user written to the registered one.
C2_Witness ==
  \E c1, c2 \in Conns :
    /\ c1 # c2 /\ readyState[c1] = "OPEN" /\ readyState[c2] = "OPEN"
    /\ userId[c1] # Null /\ userId[c1] = userId[c2]
    /\ MapGet(clients, userId[c1]) = c2
    /\ \E i \in 1..Len(sent) : sent[i].to = userId[c1] /\ sent[i].ws = c2

\* C3: accept-call on a call whose status is ended changes neither the call
\* nor the participant roster and delivers no event.
C3_AcceptAfterEnded ==
  [][\A c \in Conns, id \in CallIds :
       (AcceptCall(c, id) /\ id <= Len(calls) /\ calls[id].status = "ended")
         => (calls' = calls /\ callParticipants' = callParticipants /\ sent' = <<>>)]_vars

\* C4: a call's status changes only along initiated -> active,
\* initiated -> declined and active -> ended.
AllowedEdges == {<<"initiated", "active">>, <<"initiated", "declined">>, <<"active", "ended">>}

C4_StatusEdges ==
  [][\A id \in 1..Len(calls) :
       calls'[id].status # calls[id].status
         => <<calls[id].status, calls'[id].status>> \in AllowedEdges]_vars

\* C5: accept-call on a call that has a startedAt leaves startedAt unchanged.
C5_StartedAtOnce ==
  [][\A c \in Conns, id \in CallIds :
       (AcceptCall(c, id) /\ id <= Len(calls) /\ calls[id].startedAt # NoDate)
         => calls'[id].startedAt = calls[id].startedAt]_vars

\* C6: end-call by an identified connection sets status ended, endedAt to the
\* clock, and duration to the whole seconds from startedAt to endedAt (0 when
\* the call has no startedAt); every call-ended frame carries that duration and
\* the sender's bound user id as endedBy.  startedAt is written only by a step
\* that makes the call active, so a call that never was active has none.
C6_EndCallDuration ==
  /\ [][\A c \in Conns, id \in CallIds :
          (EndCall(c, id) /\ userId[c] # Null /\ id <= Len(calls))
            => /\ calls'[id].status = "ended"
               /\ calls'[id].endedAt = now
               /\ IF calls[id].startedAt = NoDate
                  THEN calls'[id].duration = 0
                  ELSE /\ calls'[id].duration * 1000 <= now - calls[id].startedAt
                       /\ now - calls[id].startedAt < (calls'[id].duration + 1) * 1000
               /\ \A i \in 1..Len(sent') :
                    /\ sent'[i].type = "call-ended"
                    /\ sent'[i].payload = <<id, userId[c], calls'[id].duration>>]_vars
  /\ [][\A id \in 1..Len(calls) :
          calls'[id].startedAt # calls[id].startedAt => calls'[id].status = "active"]_vars

\* A call ended one whole second after it was accepted, and its call-ended
\* frame delivered.
C6_Witness ==
  \E id \in 1..Len(calls) :
    /\ calls[id].status = "ended" /\ calls[id].startedAt # NoDate
    /\ calls[id].duration = 1
    /\ \E i \in 1..Len(sent) : sent[i].type = "call-ended" /\ sent[i].payload[3] = 1

\* C7: a broadcast to a conversation that excludes the sender (typing-status)
\* writes frames to exactly the participants other than the sender that are
\* connected, each on its registered handle, and to nobody else.
C7_ExcludeSender ==
  [][\A c \in Conns, id \in ConvIds, t \in BOOLEAN :
       (Typing(c, id, t) /\ userId[c] # Null)
         => /\ {<<sent'[i].to, sent'[i].ws>> : i \in 1..Len(sent')} =
               {<<u, MapGet(clients, u)>> :
                  u \in {m \in Members(conversationParticipants, id) \ {userId[c]} :
                           Connected(clients, readyState, m)}}
            /\ \A i \in 1..Len(sent') :
                 /\ sent'[i].type = "typing-status"
                 /\ sent'[i].payload = <<id, userId[c], t>>]_vars

\* Participants A, B, C all connected; A typed; the frames went to B and C.
C7_Witness ==
  /\ Members(conversationParticipants, 1) = {"A", "B", "C"}
  /\ \A u \in {"A", "B", "C"} : Connected(clients, readyState, u)
  /\ Len(sent) > 0
  /\ \A i \in 1..Len(sent) : sent[i].type = "typing-status" /\ sent[i].payload[2] = "A"
  /\ {sent[i].to : i \in 1..Len(sent)} = {"B", "C"}

\* C8: one broadcast writes at most one frame to each connection.
C8_AtMostOnce ==
  \A i, j \in 1..Len(sent) : i # j => sent[i].ws # sent[j].ws

\* C9: when an identified connection closes, its user's presence is offline
\* and user-status-changed{userId, offline} is written exactly once for every
\* connected user sharing a conversation with that user, and for nobody else.
C9_OfflineOnce ==
  [][\A c \in Conns :
       (Close(c) /\ userId[c] # Null)
         => /\ userStatus'[userId[c]] = "offline"
            /\ \A u \in Users :
                 FramesTo(sent', u, "user-status-changed", <<userId[c], "offline">>) =
                   IF /\ u # userId[c]
                      /\ Shares(conversationParticipants, u, userId[c])
                      /\ Connected(clients', readyState', u)
                   THEN 1 ELSE 0
            /\ \A i \in 1..Len(sent') :
                 /\ sent'[i].type = "user-status-changed"
                 /\ sent'[i].payload = <<userId[c], "offline">>]_vars

\* A closed connection whose user is offline and whose contact was told so.
C9_Witness ==
  \E c \in Conns :
    /\ readyState[c] = "CLOSED" /\ userId[c] # Null
    /\ userStatus[userId[c]] = "offline"
    /\ \E i \in 1..Len(sent) :
         /\ sent[i].type = "user-status-changed"
         /\ sent[i].payload = <<userId[c], "offline">>

\* C10: a target that cannot be delivered to (absent from the registry, or
\* its handle not OPEN) stops neither the frames of the other targets of the
\* same broadcast nor the caller: an authorised PATCH /api/messages/:id answers
\* 200 and a creating POST /api/conversations 201, and every connected target
\* has its frame.
C10_FailureIsolated ==
  [][/\ \A u \in Users, id \in MessageIds, t \in Contents :
          (PatchMessage(u, id, t) /\ id <= Len(messages) /\ messages[id].senderId = u)
            => /\ httpResponse' = 200
               /\ \A m \in Members(conversationParticipants, messages[id].conversationId) :
                    Connected(clients, readyState, m)
                      => FramesTo(sent', m, "message-updated",
                                  <<messages[id].conversationId, id, t>>) >= 1
     /\ \A u \in Users, ids \in ParticipantIdLists :
          (PostConversation(u, "group", ids) /\ conversations' # conversations)
            => /\ httpResponse' = 201
               /\ \A k \in 1..Len(ids) :
                    Connected(clients, readyState, ids[k])
                      => FramesTo(sent', ids[k], "new-conversation",
                                  <<Len(conversations')>>) >= 1]_vars

\* An edit answered 200 whose message-updated frame reached C although B, an
\* earlier participant, is registered on a handle that is not OPEN.
C10_Witness ==
  /\ httpResponse = 200
  /\ MapGet(clients, "B") # Null /\ readyState[MapGet(clients, "B")] # "OPEN"
  /\ \E i, j \in 1..Len(conversationParticipants) :
       /\ i < j
       /\ conversationParticipants[i].conversationId = conversationParticipants[j].conversationId
       /\ conversationParticipants[i].userId = "B"
       /\ conversationParticipants[j].userId = "C"
  /\ \E i \in 1..Len(sent) : sent[i].type = "message-updated" /\ sent[i].to = "C"
  /\ \A i \in 1..Len(sent) : sent[i].to # "B"

\* The response is sent before the broadcaster is called: `respond` comes
\* before every `broadcast` of the route's steps, and there is one.
RespondsBeforeBroadcast(done) ==
  \E i \in 1..Len(done) :
    /\ done[i] = "respond"
    /\ \E j \in 1..Len(done) : done[j] = "broadcast"
    /\ \A j \in 1..Len(done) : done[j] = "broadcast" => i < j

\* C11: POST /api/conversations/:id/messages responds before it calls the
\* broadcaster, and answers 201 whatever the broadcast does: whichever
\* targets are deliverable, and also when the participant lookup throws.
C11_RespondBeforeBroadcast ==
  [][\A u \in Users, id \in ConvIds, t \in Contents :
       (/\ id <= Len(conversations)
        /\ (PostMessage(u, id, t) \/ PostMessageFails(u, id, t, "getParticipants")))
         => /\ httpResponse' = 201
            /\ RespondsBeforeBroadcast(steps')]_vars

\* A message answered 201 whose broadcast delivered nothing although a
\* participant of its conversation is connected: the lookup threw.
C11_Witness ==
  /\ httpResponse = 201
  /\ steps = <<"persist", "respond", "broadcast">>
  /\ sent = <<>>
  /\ Len(messages) > 0
  /\ \E m \in Members(conversationParticipants, messages[Len(messages)].conversationId) :
       Connected(clients, readyState, m)

\* C12: an edit or a delete by the message's sender persists, responds, then
\* broadcasts: the response is never sent after the broadcast.
C12_EditRespondsFirst ==
  [][\A u \in Users, id \in MessageIds, t \in Contents :
       (/\ id <= Len(messages) /\ messages[id].senderId = u
        /\ (PatchMessage(u, id, t) \/ DeleteMessage(u, id)))
         => steps' = <<"persist", "respond", "broadcast">>]_vars

\* C13: an edit or a delete by a user who is not the message's sender is
\* answered 403, leaves the messages unchanged and writes no frame.
C13_ForbiddenEdit ==
  [][\A u \in Users, id \in MessageIds, t \in Contents :
       (/\ id <= Len(messages) /\ messages[id].senderId # u
        /\ (PatchMessage(u, id, t) \/ DeleteMessage(u, id)))
         => /\ httpResponse' = 403
            /\ messages' = messages
            /\ sent' = <<>>]_vars

\* A request answered 403 while a participant of the conversation of an
\* existing message is connected, and no frame written.
C13_Witness ==
  /\ httpResponse = 403
  /\ sent = <<>>
  /\ \E id \in 1..Len(messages) :
       \E m \in Members(conversationParticipants, messages[id].conversationId) :
         Connected(clients, readyState, m)

C15_LiveFailureContained ==
  [][\A c \in Conns, u \in Users, at \in PresenceFaults :
       (\/ userId[c] = u /\ \E o \in UnhandledRejectionOutcomes : CloseFails(c, at, o)
        \/ UserOnlineFails(c, u, at))
         => \A e \in clients :
              e[1] # u => (e \in clients' /\ readyState'[e[2]] = readyState[e[2]])]_vars

\* C16: a signaling message (ice-candidate, webrtc-offer, webrtc-answer) is
\* forwarded to the connection registered for payload.targetUserId and to no
\* other, with its type, and the fromUserId of the forwarded frame is the
\* user id bound to the sending connection, whatever the payload claims.
C16_SignalRelay ==
  [][\A c \in Conns, t \in SignalTypes, u \in Users, f \in Users :
       (/\ readyState[c] = "OPEN"
        /\ userId[c] # Null
        /\ Signal(c, t, u, f, "sdp"))
         => /\ Len(sent') = IF Connected(clients, readyState, u) THEN 1 ELSE 0
            /\ \A i \in 1..Len(sent') :
                 /\ sent'[i].to = u
                 /\ sent'[i].ws = MapGet(clients, u)
                 /\ sent'[i].type = t
                 /\ sent'[i].payload = <<userId[c], "sdp">>]_vars

\* A's signal reached B's handle, and only it, while C was connected too.
C16_Witness ==
  /\ Len(sent) = 1
  /\ sent[1].type \in SignalTypes
  /\ sent[1].to = "B"
  /\ sent[1].ws = MapGet(clients, "B")
  /\ sent[1].payload = <<"A", "sdp">>
  /\ Connected(clients, readyState, "A")
  /\ Connected(clients, readyState, "C")

\* C17: relaying a signaling message changes no state (registry, presence,
\* calls, call participants, or anything else stored); when the target has
\* no open registered connection the message is dropped, and it is not
\* delivered later: a signaling frame is only ever written in the step of
\* the signaling message it relays, to a target connected in that step.
C17_SignalFrame ==
  /\ [][\A c \in Conns, t \in SignalTypes, u \in Users \cup {Null}, d \in SignalData :
          (/\ readyState[c] = "OPEN"
           /\ \E f \in Users : Signal(c, t, u, f, d))
            => /\ UNCHANGED <<clients, readyState, userId, userStatus, conversations,
                              conversationParticipants, messages, calls, callParticipants>>
               /\ ~Connected(clients, readyState, u) => sent' = <<>>]_vars
  /\ [][\A i \in 1..Len(sent') :
          sent'[i].type \in SignalTypes
            => /\ Connected(clients, readyState, sent'[i].to)
               /\ \E c \in Conns, f \in Users :
                    Signal(c, sent'[i].type, sent'[i].to, f, sent'[i].payload[2])]_vars

\* A signal relayed to B while a call and its participant row exist and C's
\* registered handle is no longer open.
C17_Witness ==
  /\ Len(sent) = 1
  /\ sent[1].type \in SignalTypes
  /\ sent[1].to = "B"
  /\ Len(calls) > 0
  /\ Len(callParticipants) > 0
  /\ MapGet(clients, "C") # Null
  /\ ~Connected(clients, readyState, "C")

TwoParty(id) ==
  /\ userId["c1"] = "A" /\ userId["c2"] = "B"
  /\ Connected(clients, readyState, "A") /\ Connected(clients, readyState, "B")
  /\ id \in 1..Len(conversations)
  /\ MapUserId(getParticipants(conversationParticipants, id)) \in {<<"A", "B">>, <<"B", "A">>}

\* Exactly these frames, one per listed user, were written.
Delivered(frames, to, type, payload) ==
  /\ Len(frames) = Cardinality(to)
  /\ \A u \in to : FramesTo(frames, u, type, payload) = 1

\* C19: in a two-party call (A starts it on the conversation of A and B, B
\* accepts, A ends) the start delivers incoming-call to B and not to A, the
\* accept delivers call-accepted with userId B to both, the end delivers
\* call-ended with endedBy A to both; each event is written in the step of
\* its request, so accepted follows incoming and ended follows accepted.
C19_TwoPartyCall ==
  /\ [][\A id \in ConvIds :
          (TwoParty(id) /\ StartCall("c1", id))
            => Delivered(sent', {"B"}, "incoming-call", <<Len(calls'), "A">>)]_vars
  /\ [][\A k \in CallIds :
          (/\ k <= Len(calls)
           /\ calls[k].initiatorId = "A"
           /\ TwoParty(calls[k].conversationId)
           /\ calls[k].status = "initiated"
           /\ AcceptCall("c2", k))
            => /\ Delivered(sent', {"A", "B"}, "call-accepted", <<k, "B">>)
               /\ calls'[k].status = "active"]_vars
  /\ [][\A k \in CallIds :
          (/\ k <= Len(calls)
           /\ calls[k].initiatorId = "A"
           /\ TwoParty(calls[k].conversationId)
           /\ calls[k].status = "active"
           /\ EndCall("c1", k))
            => /\ Delivered(sent', {"A", "B"}, "call-ended", <<k, "A", calls'[k].duration>>)
               /\ calls'[k].status = "ended"]_vars

\* The scenario ran to its end: the call A started and B accepted is ended,
\* both are on its roster, and both connections hold A's call-ended frame.
C19_Witness ==
  \E k \in 1..Len(calls) :
    /\ TwoParty(calls[k].conversationId)
    /\ calls[k].initiatorId = "A"
    /\ calls[k].status = "ended"
    /\ calls[k].startedAt # NoDate
    /\ {callParticipants[i].userId :
          i \in {j \in 1..Len(callParticipants) : callParticipants[j].callId = k}} = {"A", "B"}
    /\ Delivered(sent, {"A", "B"}, "call-ended", <<k, "A", calls[k].duration>>)

\* One call was created by `u` on conversation `id` (0: none): a new row
\* with status initiated, `u` its only participant row, and incoming-call
\* written to the connected participants of the conversation except `u`.
CallStarted(u, id) ==
  /\ Len(calls') = Len(calls) + 1
  /\ calls'[Len(calls')].status = "initiated"
  /\ calls'[Len(calls')].initiatorId = u
  /\ calls'[Len(calls')].conversationId = id
  /\ callParticipants' = addCallParticipant(callParticipants, Len(calls'), u)
  /\ {sent'[i].to : i \in 1..Len(sent')} =
       {m \in Members(conversationParticipants, id) \ {u} : Connected(clients, readyState, m)}
  /\ \A i \in 1..Len(sent') :
       sent'[i].type = "incoming-call" /\ sent'[i].payload = <<Len(calls'), u>>

\* C20: POST /api/calls and the start-call socket message are equivalent for
\* the same user and conversation id, an absent conversation id included:
\* either creates one call with status initiated whose only participant is
\* the initiator and delivers incoming-call to the same recipients, the
\* initiator excluded.
C20_StartCallEquivalent ==
  [][\A u \in Users, id \in ConvIds \cup {0} :
       (/\ id <= Len(conversations)
        /\ \/ PostCall(u, id)
           \/ \E c \in Conns : userId[c] = u /\ StartCall(c, id))
         => CallStarted(u, id)]_vars

\* C21: a media toggle changes at most the one flag of its type, in the
\* sender's own call-participant rows of that call, to the payload's value:
\* the other two flags of those rows and every row of any other participant
\* or call are unchanged, whatever other flags the payload carries.
C21_ToggleOneFlag ==
  [][\A c \in PairConns, t \in ToggleTypes, p \in MediaPayloads :
       LET id == 1 IN
       (/\ readyState[c] = "OPEN"
        /\ userId[c] # Null
        /\ Toggle(c, t, id, p))
         => /\ Len(callParticipants') = Len(callParticipants)
            /\ \A i \in 1..Len(callParticipants) :
                 IF callParticipants[i].callId = id /\ callParticipants[i].userId = userId[c]
                 THEN /\ \A f \in (DOMAIN callParticipants[i]) \ {flagOf(t)} :
                           callParticipants'[i][f] = callParticipants[i][f]
                      /\ flagOf(t) \in DOMAIN p
                           => callParticipants'[i][flagOf(t)] = p[flagOf(t)]
                 ELSE callParticipants'[i] = callParticipants[i]]_vars

\* A muted itself with a payload that also carried the other two flags set:
\* only isMuted of A's row is set, B's row is as created.
C21_Witness ==
  /\ \E i \in 1..Len(sent) :
       /\ sent[i].type = "participant-media-changed"
       /\ sent[i].payload[2] = "A"
       /\ sent[i].payload[3] = [f \in MediaFlags |-> TRUE]
  /\ \E i, j \in 1..Len(callParticipants) :
       /\ callParticipants[i].userId = "A"
       /\ callParticipants[i].isMuted
       /\ ~callParticipants[i].isVideoOff
       /\ ~callParticipants[i].isScreenSharing
       /\ callParticipants[j].userId = "B"
       /\ callParticipants[j].callId = callParticipants[i].callId
       /\ ~callParticipants[j].isMuted

\* The direct conversations whose participants are exactly u and v.
DirectFor(convs, rows, u, v) ==
  {id \in 1..Len(convs) : convs[id].type = "direct" /\ Members(rows, id) = {u, v}}

\* The request answered last returned the direct conversation of u and v.
ReturnedDirect(u, v) ==
  /\ httpResponse \in {200, 201}
  /\ httpBody \in DirectFor(conversations, conversationParticipants, u, v)

\* C22: creating a direct conversation between A and B twice in sequence, by
\* either user and in either order, returns the same conversation id both
\* times (the lookup of either order finds the conversation just returned,
\* and the second request answers with it) and leaves exactly one direct
\* conversation of the pair.
C22_DirectIdempotent ==
  /\ [](\A r \in DirectRequests :
         ReturnedDirect(r[1], r[2])
           => /\ findDirectConversation(conversations, conversationParticipants,
                                        r[1], r[2]) = httpBody
              /\ findDirectConversation(conversations, conversationParticipants,
                                        r[2], r[1]) = httpBody)
  /\ [][\A r \in DirectRequests :
          (/\ ReturnedDirect(r[1], r[2])
           /\ \/ PostConversation(r[1], "direct", <<r[2]>>)
              \/ PostConversation(r[2], "direct", <<r[1]>>))
            => /\ httpBody' = httpBody
               /\ httpResponse' = 200
               /\ conversations' = conversations
               /\ DirectFor(conversations', conversationParticipants', r[1], r[2])
                    = {httpBody}]_vars

\* The second request of the pair was answered with the existing
\* conversation, created by the other user.
C22_Witness ==
  /\ httpResponse = 200
  /\ steps = <<"respond">>
  /\ httpBody \in DirectFor(conversations, conversationParticipants, "A", "B")
  /\ conversations[httpBody].createdById = "B"
  /\ Connected(clients, readyState, "A")

\* C23: in every reachable state, those reached by interleaved requests for
\* the same pair included, at most one direct conversation exists for any
\* unordered pair of users.
C23_OneDirectPerPair ==
  \A u, v \in Users :
    Cardinality(DirectFor(conversations, conversationParticipants, u, v)) <= 1

\* C24: in every reachable state, after any sequence of conversation
\* creation and participant removal requests, every conversation of type
\* direct has exactly two participants.
C24_DirectHasTwo ==
  \A id \in 1..Len(conversations) :
    conversations[id].type = "direct"
      => Len(getParticipants(conversationParticipants, id)) = 2

\* C25: in every reachable state each group conversation has exactly one
\* participant with role owner and that participant is its creator; the
\* participant removal and update requests cannot remove, demote or
\* duplicate the owner.
C25_OneOwner ==
  \A id \in 1..Len(conversations) :
    conversations[id].type = "group"
      => LET owners == SelectSeq(getParticipants(conversationParticipants, id),
                                 LAMBDA p : p.role = "owner")
         IN Len(owners) = 1 /\ owners[1].userId = conversations[id].createdById

\* C26: in every reachable state a message whose deletedAt is set has no
\* content, after any sequence of edit and delete requests (an edit after
\* the delete included), and no request changes a message's conversation or
\* sender or removes its row.
C26_Tombstone ==
  /\ [](\A id \in 1..Len(messages) :
         messages[id].deletedAt # NoDate => messages[id].content = Null)
  /\ [][\A id \in 1..Len(messages) :
          /\ id <= Len(messages')
          /\ messages'[id].conversationId = messages[id].conversationId
          /\ messages'[id].senderId = messages[id].senderId]_vars

\* C27: a connection moves only along Unauthenticated -> Identified ->
\* Closed: once bound to a user id it is never bound to another user id and
\* never returns to the unbound state, whatever user-online messages follow.
C27_BoundOnce ==
  [][\A c \in Conns : userId[c] # Null => userId'[c] = userId[c]]_vars

\* A step that changes no stored row and no registry entry and writes no frame.
NoEffect ==
  /\ UNCHANGED <<clients, userId, userStatus, conversations, conversationParticipants,
                 messages, calls, callParticipants>>
  /\ sent' = <<>>

\* C28: a typing, call-lifecycle, media-toggle or signaling message received
\* on a connection that has not identified changes no persisted state and
\* no registry entry and delivers no event to any connection.
C28_UnidentifiedIgnored ==
  [][\A c \in PairConns :
       (/\ userId[c] = Null
        /\ \/ Typing(c, 1, TRUE)
           \/ StartCall(c, 1)
           \/ AcceptCall(c, 1)
           \/ DeclineCall(c, 1)
           \/ EndCall(c, 1)
           \/ Toggle(c, "toggle-mute", 1, [f \in MediaFlags |-> TRUE])
           \/ \E u \in {"A", "B"} : Signal(c, "webrtc-offer", u, "A", "sdp"))
         => NoEffect]_vars

\* An open connection that has not identified, beside A who is connected,
\* in a conversation and in a call still ringing, and the handler that ran
\* last wrote nothing.
C28_Witness ==
  /\ readyState["c2"] = "OPEN"
  /\ userId["c2"] = Null
  /\ Connected(clients, readyState, "A")
  /\ Members(conversationParticipants, 1) = {"A", "B"}
  /\ Len(calls) > 0
  /\ calls[1].status = "initiated"
  /\ \A i \in 1..Len(conversationParticipants) : ~conversationParticipants[i].isTyping
  /\ sent = <<>>

\* C29: an unparseable frame or an envelope with an unknown type is dropped:
\* the receiving connection stays open and keeps its user binding, and no
\* registry entry, persisted state or other connection is affected.
C29_MalformedDropped ==
  [][\A c \in PairConns, k \in MalformedKinds :
       (readyState[c] = "OPEN" /\ Malformed(c, k))
         => /\ readyState' = readyState
            /\ NoEffect]_vars

\* Both connections open and bound, registered, in a conversation with a
\* call in progress, and the handler that ran last wrote nothing.
C29_Witness ==
  /\ userId["c1"] = "A" /\ userId["c2"] = "B"
  /\ Connected(clients, readyState, "A") /\ Connected(clients, readyState, "B")
  /\ Len(calls) > 0
  /\ calls[1].status = "active"
  /\ sent = <<>>

\* C30: accept-call, decline-call, end-call and the media toggles on a call
\* id that does not resolve to a call are no-ops: no call or call-participant
\* row is created or changed and no event is delivered to any connection.
C30_UnknownCallNoOp ==
  [][\A c \in PairConns, id \in {1, UnknownCallId} :
       (/\ userId[c] # Null
        /\ id \notin 1..Len(calls)
        /\ \/ AcceptCall(c, id)
           \/ DeclineCall(c, id)
           \/ EndCall(c, id)
           \/ \E t \in ToggleTypes : Toggle(c, t, id, [f \in MediaFlags |-> TRUE]))
         => /\ calls' = calls
            /\ callParticipants' = callParticipants
            /\ sent' = <<>>]_vars

\* A and B, connected, in an active call in which somebody is muted with
\* the video on, and the handler that ran last wrote nothing.
C30_Witness ==
  /\ Connected(clients, readyState, "A") /\ Connected(clients, readyState, "B")
  /\ Len(calls) > 0
  /\ calls[1].status = "active"
  /\ {callParticipants[i].userId : i \in 1..Len(callParticipants)} = {"A", "B"}
  /\ \E i \in 1..Len(callParticipants) :
       callParticipants[i].isMuted /\ ~callParticipants[i].isVideoOff
  /\ sent = <<>>

\* C31: when a connection identifies as user A, A's presence is set to
\* online and user-status-changed{userId: A, status: online} is written
\* exactly once for every connected user who shares a conversation with A,
\* on that user's registered handle, and for nobody else: no frame is
\* addressed to A and none is written to the identifying connection.
C31_OnlineFanout ==
  [][\A c \in PairConns, u \in Users :
       UserOnline(c, u)
         => /\ userStatus'[u] = "online"
            /\ \A v \in Users :
                 FramesTo(sent', v, "user-status-changed", <<u, "online">>) =
                   IF /\ v # u
                      /\ Shares(conversationParticipants, v, u)
                      /\ Connected(clients', readyState, v)
                   THEN 1 ELSE 0
            /\ \A i \in 1..Len(sent') :
                 /\ sent'[i].type = "user-status-changed"
                 /\ sent'[i].payload = <<u, "online">>
                 /\ sent'[i].to # u
                 /\ sent'[i].ws # c
                 /\ sent'[i].ws = MapGet(clients', sent'[i].to)]_vars

\* C32: whenever no handler is in flight, a user whose presence is offline
\* has no open connection in the registry; and the close of an older
\* connection of user A, run after a newer connection has identified as A,
\* does not mark A offline while the newer connection is still open.
C32_OfflineOnlyIfGone ==
  /\ [](inFlight = {} =>
          \A u \in Users :
            userStatus[u] = "offline" => ~Connected(clients, readyState, u))
  /\ [][\A c, d \in PairConns :
          (/\ c # d
           /\ userId[c] # Null
           /\ userId[d] = userId[c]
           /\ MapGet(clients, userId[c]) = d
           /\ readyState[d] = "OPEN"
           /\ Close(c))
            => userStatus'[userId[c]] # "offline"]_vars

\* C33: once a connection is closed and its close handler has run, no
\* registry entry holds that connection, whatever user-online messages it
\* received before (a second one with another user id or with none included).
C33_ClosedNotRegistered ==
  \A c \in Conns : readyState[c] = "CLOSED" => \A e \in clients : e[2] # c

\* C34: a typing, accept-call, decline-call or end-call message from an
\* identified user who is not a participant of the conversation concerned
\* (the one named, or the call's) changes no call and no call-participant
\* row and writes no frame to a participant of that conversation.
C34_OutsiderIgnored ==
  [][\A c \in Conns :
       (/\ userId[c] # Null
        /\ 1 <= Len(conversations)
        /\ userId[c] \notin Members(conversationParticipants, 1)
        /\ \/ Typing(c, 1, TRUE)
           \/ /\ 1 <= Len(calls)
              /\ calls[1].conversationId = 1
              /\ AcceptCall(c, 1) \/ DeclineCall(c, 1) \/ EndCall(c, 1))
         => /\ calls' = calls
            /\ callParticipants' = callParticipants
            /\ \A i \in 1..Len(sent') :
                 sent'[i].to \notin Members(conversationParticipants, 1)]_vars

\* C35: in every reachable state a call has at most one call-participant
\* row per user id, after any sequence of start-call and accept-call
\* messages (the initiator accepting their own call and a user accepting
\* twice included).
C35_OneRowPerUser ==
  \A i, j \in 1..Len(callParticipants) :
    (/\ callParticipants[i].callId = callParticipants[j].callId
     /\ callParticipants[i].userId = callParticipants[j].userId) => i = j

\* C36: the events of two typing messages received in order on one
\* connection reach each common recipient in that order (when the handler
\* of a message writes its frames, no handler of a later message of that
\* connection has already written to one of the same recipients), and once
\* every handler has finished the persisted typing flag is the isTyping of
\* the message received last.
C36_TypingInOrder ==
  /\ [][\A h \in inFlight :
          TypingBroadcast(h)
            => \A g \in inFlight :
                 (g.c = h.c /\ g.seq > h.seq /\ g.pc = "done")
                   => g.delivered \cap {sent'[i].to : i \in 1..Len(sent')} = {}]_vars
  /\ [](\A h \in inFlight :
          (/\ TypingHandlers = {}
           /\ \A g \in inFlight : g.seq <= h.seq)
            => \A i \in 1..Len(conversationParticipants) :
                 (/\ conversationParticipants[i].conversationId = h.conversationId
                  /\ conversationParticipants[i].userId = h.userId)
                   => conversationParticipants[i].isTyping = h.isTyping)

\* The user of connection c is on the roster of call k, which is not over.
InCall(c, k) ==
  /\ k \in 1..Len(calls)
  /\ calls[k].status \in {"initiated", "active"}
  /\ \E i \in 1..Len(callParticipants) :
       callParticipants[i].callId = k /\ callParticipants[i].userId = userId[c]

\* C37: when a user who started or accepted a call through the client's
\* CallProvider hangs up, the client sends end-call carrying that call's id
\* (which makes the server set the call ended and deliver call-ended).
C37_HangUpEndsCall ==
  [][\A c \in PairConns, k \in CallIds :
       (/\ callState[c].isInCall
        /\ InCall(c, k)
        /\ ClientEndCall(c))
         => /\ Len(outbox'[c]) = Len(outbox[c]) + 1
            /\ outbox'[c][Len(outbox'[c])] = WireFrame("end-call", 0, k, <<>>)]_vars

\* C38: every call-control frame the client's CallProvider sends during a
\* call (toggle-mute, toggle-video, toggle-screen-share, join-call) has a
\* type the server's switch handles and the callId its guard requires, and
\* when the server receives a toggle from a user in a call the user's row
\* of that call has the flag the frame carries.
C38_ControlsHandled ==
  [][\A c \in PairConns :
       (/\ outbox[c] # <<>>
        /\ Head(outbox[c]).type \in ToggleTypes \cup {"join-call"}
        /\ Deliver(c))
         => LET frame == Head(outbox[c])
            IN /\ frame.type \in HandledTypes
               /\ frame.callId # 0
               /\ frame.type \in ToggleTypes
                    => \A k \in CallIds :
                         InCall(c, k)
                           => \A i \in 1..Len(callParticipants) :
                                (/\ callParticipants[i].callId = k
                                 /\ callParticipants[i].userId = userId[c])
                                  => callParticipants'[i][flagOf(frame.type)]
                                       = frame.flags[flagOf(frame.type)]]_vars

\* C39: in the client's message list of a conversation, a message put there
\* by a new-message event stays in the list and no message id appears twice,
\* however onMutate and onSuccess of the send mutation interleave with the
\* new-message events.
C39_ReceivedStaysOnce ==
  /\ [](\A c \in PairConns : \A i, j \in 1..Len(queryData[c].data) :
         queryData[c].data[i].id = queryData[c].data[j].id => i = j)
  /\ [][\A c \in PairConns : \A i \in 1..Len(queryData[c].data) :
         queryData[c].data[i].via = "new-message"
           => some(queryData'[c].data, queryData[c].data[i].id)]_vars

====
